---- MODULE Spec2Model ----
(***************************************************************************)
(* agent-mail-cli: the local session / identity layer of the CLI           *)
(* (src/src/agent_mail_cli/cli.py), the response handling of its client    *)
(* (client.py) and the session heartbeat hook (hooks/).                    *)
(*                                                                         *)
(* State: the session files of one project directory                      *)
(* (~/.config/agent-mail-cli/sessions/<hash>/<agent>.json), the wall       *)
(* clock, the OS process table, and the outcome of the last command.       *)
(* One action per CLI command; the helpers (_read_session, _write_session, *)
(* _clear_session, _check_session_conflict, ...) are operators that take   *)
(* a file's content and give the result together with the file's new       *)
(* content.                                                                *)
(***************************************************************************)
EXTENDS Integers, Sequences, FiniteSets, TLC

VARIABLES
    store,   \* agent name -> content of its session file
    now,     \* datetime.now(timezone.utc), in seconds
    alive,   \* pids present in the OS process table (besides init)
    last,    \* what the last command was given, did and printed
    input,   \* the arguments, environment and replies a command is run on
    pc,      \* process -> where it stands in a register run step by step
    tmp      \* hook pid -> content of /tmp/agent-mail-heartbeat-<pid>

vars == <<store, now, alive, last, input, pc, tmp>>

----------------------------------------------------------------------------
(* Bounds *)

\* the clock runs from 0 to MaxTime
MaxTime == 2

\* --ttl ranges over 1..MaxTtl
MaxTtl == 2

\* list_agents returns up to MaxAgents agents
MaxAgents == 2

----------------------------------------------------------------------------
(* The project, the agent names, the process tree *)

ProjectKey == "/tmp/p"

\* the agent the session commands are run for
Agents == {"Nova"}

\* the session files a project directory may hold (<name>.json)
SessionNames == {"Nova", "Olive"}

\* sorted(sessions_dir.glob("*.json")): the agent names in file-name order
SortedAgents == <<"Nova", "Olive">>

\* names the server gives to agents it has deleted
DeletedNames == {"Deleted-3"}

\* a missing or empty option / environment value (None or "": both falsy)
NoName == ""

InitPid == 1

\* 2: the agent host (e.g. the editor session), 3: its shell, 4: a CLI
\* process started from that shell; 5: a CLI process started by init.
\* 10, 12: runs of the heartbeat hook, started by the host and by its
\* shell; 11, 13: the agent-mail process each of them starts.
Parent ==
    [p \in (2..5) \cup (10..13) |->
        CASE p = 2 -> 1 [] p = 3 -> 2 [] p = 4 -> 3 [] p = 5 -> 1
          [] p = 10 -> 2 [] p = 11 -> 10 [] p = 12 -> 3 [] p = 13 -> 12]

Pids == DOMAIN Parent

\* the processes that run CLI commands
Procs == {4, 5}

\* the processes a walk up from a CLI process may come by
CliPids == {2, 3} \cup Procs

\* the processes that run the heartbeat hook
HookProcs == {10, 12}

\* the agent-mail process a hook process starts
HookChild(h) == h + 1

\* no rate-limit file has been written
NoTmp == [h \in HookProcs |-> [k |-> "absent"]]

Ttls == 1..MaxTtl

----------------------------------------------------------------------------
(* Process inspection *)

\* os.getppid(): an orphan is re-parented to init
getppid(p, live) == IF Parent[p] \in live THEN Parent[p] ELSE InitPid

\* subprocess.run(["ps", "-o", "ppid=", "-p", str(pid)]): return code and
\* the parent pid printed; init's parent is 0; a pid that is not running
\* gives a non-zero return code.
PsPpid(pid, live) ==
    IF pid = InitPid THEN [returncode |-> 0, ppid |-> 0]
    ELSE IF pid \in live THEN [returncode |-> 0, ppid |-> getppid(pid, live)]
    ELSE [returncode |-> 1, ppid |-> 0]

\* os.kill(pid, 0) raises OSError: the pid is not in the process table
KillRaises(pid, live) == pid # InitPid /\ pid \notin live

----------------------------------------------------------------------------
(* Timestamps and file contents *)

\* datetime.isoformat() of an aware UTC datetime: "...+00:00"
isoformat(t) == [k |-> "aware", t |-> t]

Absent == [kind |-> "absent"]

\* the dict _write_session dumps as JSON
SessionData(agent, started, expires, pid) ==
    [kind |-> "object", agent |-> agent, project |-> ProjectKey,
     started_at |-> started, expires_at |-> expires, pid |-> pid]

----------------------------------------------------------------------------
(* _read_session *)

\* datetime.fromisoformat(data.get("expires_at", "").replace("Z", "+00:00"))
\* on the stored value: "AttributeError" when the value has no .replace (not
\* a string), "ValueError" when it is "" (the key is missing) or not an ISO
\* date, else the datetime, aware or naive.
ParseExpiry(e) ==
    CASE e.k = "nonstring"   -> [exc |-> "AttributeError"]
      [] e.k = "missing"     -> [exc |-> "ValueError"]
      [] e.k = "unparseable" -> [exc |-> "ValueError"]
      [] e.k = "naive"       -> [exc |-> "none", aware |-> FALSE, t |-> e.t]
      [] e.k = "aware"       -> [exc |-> "none", aware |-> TRUE, t |-> e.t]

\* the exceptions _read_session catches (line 191)
ReadCatches == {"JSONDecodeError", "ValueError", "OSError"}

\* ReadTry, but an expired file is not unlinked
ReadTry_NoUnlink(f, t) ==
    IF f.kind = "notjson" THEN [exc |-> "JSONDecodeError", data |-> FALSE, file |-> f]
    ELSE IF f.kind = "nonobject" THEN [exc |-> "AttributeError", data |-> FALSE, file |-> f]
    ELSE LET d == ParseExpiry(f.expires_at) IN
        IF d.exc # "none" THEN [exc |-> d.exc, data |-> FALSE, file |-> f]
        ELSE IF ~d.aware THEN [exc |-> "TypeError", data |-> FALSE, file |-> f]
        ELSE IF d.t < t THEN [exc |-> "none", data |-> FALSE, file |-> f]
        ELSE [exc |-> "none", data |-> TRUE, file |-> f]

\* ReadTry, but an expired record is returned like any other
ReadTry_IgnoreExpiry(f, t) ==
    IF f.kind = "notjson" THEN [exc |-> "JSONDecodeError", data |-> FALSE, file |-> f]
    ELSE IF f.kind = "nonobject" THEN [exc |-> "AttributeError", data |-> FALSE, file |-> f]
    ELSE LET d == ParseExpiry(f.expires_at) IN
        IF d.exc # "none" THEN [exc |-> d.exc, data |-> FALSE, file |-> f]
        ELSE IF ~d.aware THEN [exc |-> "TypeError", data |-> FALSE, file |-> f]
        ELSE [exc |-> "none", data |-> TRUE, file |-> f]

\* what the try block of _read_session does on file content f at time t:
\* the exception it raises ("none" if it returns), whether it returns the
\* data, and the file afterwards
ReadTry(f, t) ==
    IF f.kind = "notjson" THEN [exc |-> "JSONDecodeError", data |-> FALSE, file |-> f]
    ELSE IF f.kind = "nonobject" THEN [exc |-> "AttributeError", data |-> FALSE, file |-> f]
    ELSE LET d == ParseExpiry(f.expires_at) IN
        IF d.exc # "none" THEN [exc |-> d.exc, data |-> FALSE, file |-> f]
        ELSE IF ~d.aware THEN [exc |-> "TypeError", data |-> FALSE, file |-> f]
        ELSE IF d.t < t THEN [exc |-> "none", data |-> FALSE, file |-> Absent]
        ELSE [exc |-> "none", data |-> TRUE, file |-> f]

\* _read_session(project_key, agent_name) on file content f at time t.
\* res: "data" (f is returned), "none" (None is returned) or "raise" (the
\* exception exc leaves the function); file: the content afterwards.
ReadSession(f, t) ==
    IF f.kind = "absent" THEN [res |-> "none", exc |-> "none", file |-> f]
    ELSE LET r == ReadTry(f, t) IN
        IF r.exc \in ReadCatches THEN [res |-> "none", exc |-> "none", file |-> r.file]
        ELSE IF r.exc # "none" THEN [res |-> "raise", exc |-> r.exc, file |-> r.file]
        ELSE IF r.data THEN [res |-> "data", exc |-> "none", file |-> r.file]
        ELSE [res |-> "none", exc |-> "none", file |-> r.file]

----------------------------------------------------------------------------
(* _write_session *)

\* the pid _write_session records: the grandparent when ps reports one
\* above 1, else the process itself; the parent when ps cannot be run
StablePid(p, live, ps) ==
    IF ~ps THEN getppid(p, live)
    ELSE LET r == PsPpid(getppid(p, live), live) IN
        IF r.returncode = 0 /\ r.ppid > 1 THEN r.ppid ELSE p

\* WriteSession, but an existing record keeps its owner pid
WriteSession_KeepOwner(f, agent, p, ttl, t, live, ps) ==
    LET existing == ReadSession(f, t)
        started  == IF existing.res = "data" THEN f.started_at ELSE isoformat(t)
        owner    == IF existing.res = "data" THEN f.pid ELSE StablePid(p, live, ps)
        data     == SessionData(agent, started, isoformat(t + ttl), owner)
    IN  IF existing.res = "raise"
        THEN [res |-> "raise", exc |-> existing.exc, file |-> existing.file]
        ELSE [res |-> "data", exc |-> "none", file |-> data]

\* WriteSession, but started_at is never carried over
WriteSession_FreshStart(f, agent, p, ttl, t, live, ps) ==
    LET existing == ReadSession(f, t)
        data     == SessionData(agent, isoformat(t), isoformat(t + ttl), StablePid(p, live, ps))
    IN  IF existing.res = "raise"
        THEN [res |-> "raise", exc |-> existing.exc, file |-> existing.file]
        ELSE [res |-> "data", exc |-> "none", file |-> data]

\* WriteSession, but expires_at is started_at + ttl
WriteSession_FromStart(f, agent, p, ttl, t, live, ps) ==
    LET existing == ReadSession(f, t)
        started  == IF existing.res = "data" THEN f.started_at ELSE isoformat(t)
        data     == SessionData(agent, started, isoformat(started.t + ttl), StablePid(p, live, ps))
    IN  IF existing.res = "raise"
        THEN [res |-> "raise", exc |-> existing.exc, file |-> existing.file]
        ELSE [res |-> "data", exc |-> "none", file |-> data]

\* _write_session(project_key, agent_name, ttl_seconds) by process p at
\* time t on file content f
WriteSession(f, agent, p, ttl, t, live, ps) ==
    LET existing == ReadSession(f, t)
        started  == IF existing.res = "data" THEN f.started_at ELSE isoformat(t)
        data     == SessionData(agent, started, isoformat(t + ttl), StablePid(p, live, ps))
    IN  IF existing.res = "raise"
        THEN [res |-> "raise", exc |-> existing.exc, file |-> existing.file]
        ELSE [res |-> "data", exc |-> "none", file |-> data]

\* what session_file.write_text may do: write, or raise OSError (the file
\* cannot be opened for writing)
DiskOutcomes == {"ok", "OSError"}

\* _write_session on a disk that behaves as `disk`: write_text (line 230)
\* comes after the read of the existing record and nothing catches its error
WriteSessionOn(disk, f, agent, p, ttl, t, live, ps) ==
    LET written == WriteSession(f, agent, p, ttl, t, live, ps) IN
    IF disk = "ok" \/ written.res = "raise" THEN written
    ELSE [res |-> "raise", exc |-> "OSError", file |-> ReadSession(f, t).file]

----------------------------------------------------------------------------
(* _clear_session *)

\* ClearSession, but the file is not unlinked
ClearSession_Keep(f) == [ret |-> f.kind # "absent", file |-> f]

ClearSession(f) == [ret |-> f.kind # "absent", file |-> Absent]

----------------------------------------------------------------------------
(* _check_session_conflict *)

\* CheckSessionConflict, but a running owner is not reported
CheckSessionConflict_Blind(f, p, t, live) ==
    LET session == ReadSession(f, t) IN
    IF session.res = "raise" THEN [res |-> "raise", exc |-> session.exc, file |-> session.file]
    ELSE [res |-> "none", exc |-> "none", file |-> session.file]

\* CheckSessionConflict without the test for the caller's own pid
CheckSessionConflict_NoSelf(f, p, t, live) ==
    LET session == ReadSession(f, t) IN
    IF session.res = "raise" THEN [res |-> "raise", exc |-> session.exc, file |-> session.file]
    ELSE IF session.res = "none" THEN [res |-> "none", exc |-> "none", file |-> session.file]
    ELSE IF f.pid # 0 /\ KillRaises(f.pid, live)
         THEN [res |-> "none", exc |-> "none", file |-> ClearSession(f).file]
    ELSE [res |-> "conflict", exc |-> "none", file |-> f]

\* CheckSessionConflict, but a stale record is not cleared
CheckSessionConflict_KeepStale(f, p, t, live) ==
    LET session == ReadSession(f, t) IN
    IF session.res = "raise" THEN [res |-> "raise", exc |-> session.exc, file |-> session.file]
    ELSE IF session.res = "none" THEN [res |-> "none", exc |-> "none", file |-> session.file]
    ELSE IF f.pid = p THEN [res |-> "none", exc |-> "none", file |-> f]
    ELSE IF f.pid # 0 /\ KillRaises(f.pid, live)
         THEN [res |-> "none", exc |-> "none", file |-> f]
    ELSE [res |-> "conflict", exc |-> "none", file |-> f]

\* res: "conflict" (the session f is returned), "none" or "raise"
CheckSessionConflict(f, p, t, live) ==
    LET session == ReadSession(f, t) IN
    IF session.res = "raise" THEN [res |-> "raise", exc |-> session.exc, file |-> session.file]
    ELSE IF session.res = "none" THEN [res |-> "none", exc |-> "none", file |-> session.file]
    ELSE IF f.pid = p THEN [res |-> "none", exc |-> "none", file |-> f]
    ELSE IF f.pid # 0 /\ KillRaises(f.pid, live)
         THEN [res |-> "none", exc |-> "none", file |-> ClearSession(f).file]
    ELSE [res |-> "conflict", exc |-> "none", file |-> f]

\* _format_session_expiry(session) at time t
FormatSessionExpiry(f, t) ==
    LET d == ParseExpiry(f.expires_at) IN
    IF d.exc # "none" \/ ~d.aware THEN <<0, "?">>
    ELSE LET seconds == d.t - t IN
        IF seconds < 60 THEN <<seconds, "s">>
        ELSE IF seconds < 3600 THEN <<seconds \div 60, "m">>
        ELSE <<seconds \div 3600, "h">>

----------------------------------------------------------------------------
(* The remote service *)

\* shutil.which("ps"): the hosts of this model have the ps utility
HasPs == TRUE

AgentInfo(name, ts, policy) == [name |-> name, last_active_ts |-> ts, contact_policy |-> policy]

\* replies of list_agents (last_active_ts 0: no timestamp, which sorts lowest)
Replies ==
    { <<>>,
      <<AgentInfo("Deleted-3", 3, "auto"), AgentInfo("Nova", 1, "auto")>>,
      <<AgentInfo("Nova", 0, "block_all")>> }

\* the remote call that fails in one run of a command, if it is made
RpcFailures == {"none", "ensure_project", "list_agents", "register_agent"}

\* a.get("name", "").startswith("Deleted-")
IsDeleted(name) == name \in DeletedNames

\* _find_resumable_agent on the reply of list_agents: the first of the
\* remaining agents with the greatest last_active_ts (sort is stable), or
\* NoAgent
NoAgent == AgentInfo(NoName, 0, "none")

\* FindResumableAgent, but the remaining agents are not sorted
FindResumableAgent_Unsorted(agents) ==
    LET active == SelectSeq(agents, LAMBDA a : ~IsDeleted(a.name) /\ a.contact_policy # "block_all")
    IN  IF active = <<>> THEN NoAgent ELSE active[1]

FindResumableAgent(agents) ==
    LET active == SelectSeq(agents, LAMBDA a : ~IsDeleted(a.name) /\ a.contact_policy # "block_all")
    IN  IF active = <<>> THEN NoAgent
        ELSE LET top == CHOOSE i \in 1..Len(active) :
                          /\ \A j \in 1..Len(active) : active[j].last_active_ts <= active[i].last_active_ts
                          /\ \A j \in 1..(i-1) : active[j].last_active_ts < active[i].last_active_ts
             IN active[top]

----------------------------------------------------------------------------
(* Identity resolution *)

\* what one run of ps may do: print the parent pid, fail to start (run
\* raises), end with a non-zero return code, print something that is not a
\* number, print 0 (the parent is outside the pid namespace)
PsOutcomes == {"ok", "exception", "nonzero", "unparseable", "zero"}

\* ps answers every query
PsOk == [pid \in Pids |-> "ok"]

\* subprocess.run(["ps", "-o", "ppid=", "-p", str(pid)], check=False) when
\* the queries behave as out says: whether run raised, the return code,
\* whether int(stdout.strip()) is a number, and that number
PsRun(pid, live, out) ==
    CASE out[pid] = "exception"   -> [raised |-> TRUE,  returncode |-> 0, numeric |-> FALSE, ppid |-> 0]
      [] out[pid] = "nonzero"     -> [raised |-> FALSE, returncode |-> 1, numeric |-> FALSE, ppid |-> 0]
      [] out[pid] = "unparseable" -> [raised |-> FALSE, returncode |-> 0, numeric |-> FALSE, ppid |-> 0]
      [] out[pid] = "zero"        -> [raised |-> FALSE, returncode |-> 0, numeric |-> TRUE,  ppid |-> 0]
      [] out[pid] = "ok"          -> [raised |-> FALSE, returncode |-> PsPpid(pid, live).returncode,
                                      numeric |-> PsPpid(pid, live).returncode = 0,
                                      ppid |-> PsPpid(pid, live).ppid]

\* AncestryWalk, but the parent is asked for before the comparison
RECURSIVE AncestryWalk_SkipSelf(_, _, _, _)
AncestryWalk_SkipSelf(current, target_pid, live, out) ==
    IF current <= 1 THEN FALSE
    ELSE LET result == PsRun(current, live, out) IN
         IF result.raised THEN FALSE
         ELSE IF result.returncode # 0 THEN FALSE
         ELSE IF ~result.numeric THEN FALSE
         ELSE IF result.ppid = target_pid THEN TRUE
         ELSE AncestryWalk_SkipSelf(result.ppid, target_pid, live, out)

\* the walk of _pid_in_ancestry from pid current up to init
RECURSIVE AncestryWalk(_, _, _, _)
AncestryWalk(current, target_pid, live, out) ==
    IF current <= 1 THEN FALSE
    ELSE IF current = target_pid THEN TRUE
    ELSE LET result == PsRun(current, live, out) IN
         IF result.raised THEN FALSE
         ELSE IF result.returncode # 0 THEN FALSE
         ELSE IF ~result.numeric THEN FALSE
         ELSE AncestryWalk(result.ppid, target_pid, live, out)

\* _pid_in_ancestry(target_pid) in process p; ps: shutil.which("ps") finds
\* the utility; out: how its runs behave
PidInAncestryOn(target_pid, p, live, ps, out) ==
    IF target_pid <= 1 THEN FALSE
    ELSE IF ~ps THEN FALSE
    ELSE AncestryWalk(p, target_pid, live, out)

\* _pid_in_ancestry(target_pid) in process p on a host whose ps answers
PidInAncestry(target_pid, p, live, ps) == PidInAncestryOn(target_pid, p, live, ps, PsOk)

\* the names of the session files of the project, sorted
SessionFiles(st) == SelectSeq(SortedAgents, LAMBDA a : st[a].kind # "absent")

\* DetectLoop, but the first readable file is taken whoever owns it
RECURSIVE DetectLoop_First(_, _, _, _, _)
DetectLoop_First(files, st, p, live, ps) ==
    IF files = <<>> THEN [res |-> "ok", name |-> NoName]
    ELSE LET data == st[Head(files)] IN
         IF data.kind = "notjson" THEN DetectLoop_First(Tail(files), st, p, live, ps)
         ELSE IF data.kind = "nonobject" THEN [res |-> "raise", name |-> NoName]
         ELSE [res |-> "ok", name |-> Head(files)]

\* the loop of _detect_agent_from_session over the files (lines 330-338)
RECURSIVE DetectLoop(_, _, _, _, _)
DetectLoop(files, st, p, live, ps) ==
    IF files = <<>> THEN [res |-> "ok", name |-> NoName]
    ELSE LET data == st[Head(files)] IN
         IF data.kind = "notjson" THEN DetectLoop(Tail(files), st, p, live, ps)
         ELSE IF data.kind = "nonobject" THEN [res |-> "raise", name |-> NoName]
         ELSE IF PidInAncestry(data.pid, p, live, ps) THEN [res |-> "ok", name |-> Head(files)]
         ELSE DetectLoop(Tail(files), st, p, live, ps)

\* _detect_agent_from_session(project_key) in process p
DetectAgentFromSession(st, p, live, ps) ==
    LET session_files == SessionFiles(st) IN
    IF session_files = <<>> THEN [res |-> "ok", name |-> NoName]
    ELSE IF Len(session_files) = 1 THEN [res |-> "ok", name |-> session_files[1]]
    ELSE DetectLoop(session_files, st, p, live, ps)

\* ResolveAgentName, but the environment is consulted before the argument
ResolveAgentName_EnvFirst(agent, aam, an, st, p, live, ps, rpc, reply) ==
    LET env_agent     == IF aam # NoName THEN aam ELSE an
        session_agent == DetectAgentFromSession(st, p, live, ps)
        recent        == FindResumableAgent(reply)
    IN  IF env_agent # NoName THEN [res |-> "ok", name |-> env_agent, src |-> "env"]
        ELSE IF agent # NoName THEN [res |-> "ok", name |-> agent, src |-> "none"]
        ELSE IF session_agent.res = "raise" THEN [res |-> "raise", name |-> NoName, src |-> "none"]
        ELSE IF session_agent.name # NoName
             THEN [res |-> "ok", name |-> session_agent.name, src |-> "session"]
        ELSE IF rpc = "list_agents" THEN [res |-> "raise", name |-> NoName, src |-> "none"]
        ELSE IF recent # NoAgent THEN [res |-> "ok", name |-> recent.name, src |-> "recent"]
        ELSE [res |-> "ok", name |-> NoName, src |-> "none"]

\* _resolve_agent_name(project_key, agent, client) in process p with the
\* environment variables AGENT_MAIL_AGENT = aam and AGENT_NAME = an; every
\* caller passes a client.  res "raise": an exception leaves the function.
ResolveAgentName(agent, aam, an, st, p, live, ps, rpc, reply) ==
    LET env_agent     == IF aam # NoName THEN aam ELSE an
        session_agent == DetectAgentFromSession(st, p, live, ps)
        recent        == FindResumableAgent(reply)
    IN  IF agent # NoName THEN [res |-> "ok", name |-> agent, src |-> "none"]
        ELSE IF env_agent # NoName THEN [res |-> "ok", name |-> env_agent, src |-> "env"]
        ELSE IF session_agent.res = "raise" THEN [res |-> "raise", name |-> NoName, src |-> "none"]
        ELSE IF session_agent.name # NoName
             THEN [res |-> "ok", name |-> session_agent.name, src |-> "session"]
        ELSE IF rpc = "list_agents" THEN [res |-> "raise", name |-> NoName, src |-> "none"]
        ELSE IF recent # NoAgent THEN [res |-> "ok", name |-> recent.name, src |-> "recent"]
        ELSE [res |-> "ok", name |-> NoName, src |-> "none"]

----------------------------------------------------------------------------
(* Commands *)

NoReport == <<0, <<0, "">> >>

Last0 ==
    [op |-> "none", proc |-> 0, agent |-> NoName, force |-> FALSE, ttl |-> 0,
     time |-> 0, exit |-> 0, out |-> "none", ret |-> Absent, pid |-> 0,
     conflict |-> "unchecked", called |-> FALSE, report |-> NoReport, listed |-> {},
     named |-> FALSE, prev |-> Absent, name |-> NoName, src |-> "none",
     msg |-> "", json |-> FALSE, disk |-> "ok"]

NoInput == [agent |-> NoName, AGENT_MAIL_AGENT |-> NoName, AGENT_NAME |-> NoName,
            p |-> 0, rpc |-> "none", reply |-> <<>>]

\* a process that is not inside a register run
Idle == [at |-> "idle"]

Init ==
    /\ store = [a \in SessionNames |-> Absent]
    /\ now = 0
    /\ tmp = NoTmp
    /\ alive = Pids
    /\ last = Last0
    /\ pc = [p \in Procs |-> Idle]
    /\ input = NoInput

\* agent-mail register [--as A] [--name N] [--resume] [--force] --ttl T,
\* run by process p.  rpc: the remote call that fails; reply: what
\* list_agents returns; gen: the name the server assigns when none is given;
\* disk: what writing the session file does.
Register(p, as_agent, name, resume, force, ttl, rpc, reply, gen, disk) ==
    LET given     == IF as_agent # NoName THEN as_agent ELSE name
        lookup    == resume /\ given = NoName
        recent    == FindResumableAgent(reply)
        effective == IF lookup /\ recent # NoAgent THEN recent.name ELSE given
        base      == [Last0 EXCEPT !.op = "register", !.proc = p, !.force = force,
                                   !.agent = effective, !.named = (effective # NoName),
                                   !.prev = IF effective # NoName THEN store[effective]
                                            ELSE Absent]
        fail      == [base EXCEPT !.agent = given, !.named = (given # NoName),
                                  !.prev = IF given # NoName THEN store[given] ELSE Absent,
                                  !.exit = 1, !.out = "remote_error"]
        checked   == effective # NoName /\ ~force
        check     == IF checked THEN CheckSessionConflict(store[effective], p, now, alive)
                     ELSE [res |-> "none", exc |-> "none", file |-> Absent]
        st1       == IF checked THEN [store EXCEPT ![effective] = check.file] ELSE store
        cres      == IF checked THEN check.res ELSE "unchecked"
        agent_name == IF effective # NoName THEN effective ELSE gen
        written   == WriteSessionOn(disk, st1[agent_name], agent_name, p, ttl, now, alive, HasPs)
    IN
    /\ p \in alive
    \* the name the server assigns is one no session of the project has
    /\ effective = NoName => store[gen].kind = "absent"
    /\ IF rpc = "ensure_project" \/ (lookup /\ rpc = "list_agents")
       THEN /\ last' = fail
            /\ UNCHANGED store
       ELSE IF cres = "raise"
       THEN /\ last' = [base EXCEPT !.exit = 1, !.out = check.exc, !.conflict = cres]
            /\ store' = st1
       ELSE IF cres = "conflict"
       THEN /\ last' = [base EXCEPT !.exit = 1, !.out = "session_conflict", !.conflict = cres,
                                    !.ret = store[effective],
                                    !.report = <<store[effective].pid,
                                                 FormatSessionExpiry(store[effective], now)>>]
            /\ store' = st1
       ELSE IF rpc = "register_agent"
       THEN /\ last' = [base EXCEPT !.exit = 1, !.out = "remote_error", !.conflict = cres,
                                    !.called = TRUE]
            /\ store' = st1
       ELSE IF written.res = "raise"
       THEN /\ last' = [base EXCEPT !.agent = agent_name, !.exit = 1, !.out = written.exc,
                                    !.conflict = cres, !.called = TRUE, !.disk = disk]
            /\ store' = [st1 EXCEPT ![agent_name] = written.file]
       ELSE /\ last' = [base EXCEPT !.agent = agent_name, !.exit = 0, !.out = "registered",
                                    !.conflict = cres, !.called = TRUE,
                                    !.ttl = ttl, !.time = now,
                                    !.ret = written.file, !.pid = written.file.pid]
            /\ store' = [st1 EXCEPT ![agent_name] = written.file]
    /\ UNCHANGED <<tmp, now, alive, input, pc>>

\* a heartbeat that writes the record whether or not one exists
SessionHeartbeat_Creates(p, agent, ttl, disk) ==
    LET updated == WriteSessionOn(disk, store[agent], agent, p, ttl, now, alive, HasPs)
    IN
    /\ p \in alive
    /\ updated.res # "raise"
    /\ last' = [Last0 EXCEPT !.op = "heartbeat", !.agent = agent, !.prev = store[agent],
                             !.exit = 0, !.out = "extended", !.ret = updated.file,
                             !.proc = p, !.ttl = ttl, !.time = now,
                             !.pid = updated.file.pid]
    /\ store' = [store EXCEPT ![agent] = updated.file]
    /\ UNCHANGED <<tmp, now, alive, input, pc>>

\* agent-mail session heartbeat AGENT --ttl T
SessionHeartbeat(p, agent, ttl, disk) ==
    LET session == ReadSession(store[agent], now)
        updated == WriteSessionOn(disk, session.file, agent, p, ttl, now, alive, HasPs)
        base    == [Last0 EXCEPT !.op = "heartbeat", !.agent = agent, !.prev = store[agent]]
    IN
    /\ p \in alive
    /\ IF session.res = "raise"
       THEN /\ last' = [base EXCEPT !.exit = 1, !.out = session.exc]
            /\ store' = [store EXCEPT ![agent] = session.file]
       ELSE IF session.res = "none"
       THEN /\ last' = [base EXCEPT !.exit = 1, !.out = "no_session"]
            /\ store' = [store EXCEPT ![agent] = session.file]
       ELSE IF updated.res = "raise"
       THEN /\ last' = [base EXCEPT !.exit = 1, !.out = updated.exc, !.proc = p,
                                    !.disk = disk]
            /\ store' = [store EXCEPT ![agent] = updated.file]
       ELSE /\ last' = [base EXCEPT !.exit = 0, !.out = "extended", !.ret = updated.file,
                                    !.proc = p, !.ttl = ttl, !.time = now,
                                    !.pid = updated.file.pid]
            /\ store' = [store EXCEPT ![agent] = updated.file]
    /\ UNCHANGED <<tmp, now, alive, input, pc>>

\* agent-mail session status AGENT
SessionStatus(p, agent) ==
    LET session == ReadSession(store[agent], now)
        base    == [Last0 EXCEPT !.op = "status", !.agent = agent, !.prev = store[agent]]
    IN
    /\ p \in alive
    /\ last' = CASE session.res = "raise" -> [base EXCEPT !.exit = 1, !.out = session.exc]
                 [] session.res = "none"  -> [base EXCEPT !.out = "inactive"]
                 [] session.res = "data"  -> [base EXCEPT !.out = "active", !.ret = store[agent]]
    /\ store' = [store EXCEPT ![agent] = session.file]
    /\ UNCHANGED <<tmp, now, alive, input, pc>>

\* the loop of session status without an agent (lines 471-475) over the
\* files in the order `files`: the sessions collected, the store afterwards,
\* and the exception that ended it ("none" if it ran to its end)
RECURSIVE ListSessions(_, _, _)
ListSessions(files, st, t) ==
    IF files = <<>> THEN [exc |-> "none", sessions |-> {}, store |-> st]
    ELSE LET agent_name == Head(files)
             session    == ReadSession(st[agent_name], t)
             st1        == [st EXCEPT ![agent_name] = session.file]
         IN  IF st[agent_name].kind = "absent" THEN ListSessions(Tail(files), st, t)
             ELSE IF session.res = "raise" THEN [exc |-> session.exc, sessions |-> {}, store |-> st1]
             ELSE LET rest == ListSessions(Tail(files), st1, t) IN
                  [rest EXCEPT !.sessions = IF session.res = "data"
                                            THEN rest.sessions \cup {st[agent_name]}
                                            ELSE rest.sessions]

\* the orders in which sessions_dir.glob("*.json") may yield the files
GlobOrders == { <<"Nova", "Olive">>, <<"Olive", "Nova">> }

\* agent-mail session status   (all sessions of the project)
SessionStatusAll(p, files) ==
    LET r    == ListSessions(files, store, now)
        base == [Last0 EXCEPT !.op = "list"]
    IN
    /\ p \in alive
    /\ last' = IF r.exc # "none" THEN [base EXCEPT !.exit = 1, !.out = r.exc]
               ELSE [base EXCEPT !.out = "listed", !.listed = r.sessions]
    /\ store' = r.store
    /\ UNCHANGED <<tmp, now, alive, input, pc>>

\* agent-mail session end AGENT
SessionEnd(p, agent) ==
    LET cleared == ClearSession(store[agent]) IN
    /\ p \in alive
    /\ last' = [Last0 EXCEPT !.op = "end", !.proc = p, !.agent = agent, !.prev = store[agent],
                             !.out = IF cleared.ret THEN "cleared" ELSE "not_cleared"]
    /\ store' = [store EXCEPT ![agent] = cleared.file]
    /\ UNCHANGED <<tmp, now, alive, input, pc>>

\* time passes
Tick ==
    /\ now < MaxTime
    /\ now' = now + 1
    /\ UNCHANGED <<tmp, store, alive, last, input, pc>>

\* a process exits
ProcessExit(p) ==
    /\ p \in alive
    /\ alive' = alive \ {p}
    /\ UNCHANGED <<tmp, store, now, last, input, pc>>

\* the processes whose exit the model follows: the agent host and the
\* CLI process started by init
Mortal == {2, 5}

\* the option combinations of register: --as, --name, --resume
RegisterOptions ==
    { [as_agent |-> NoName,  name |-> NoName,  resume |-> FALSE],
      [as_agent |-> NoName,  name |-> NoName,  resume |-> TRUE],
      [as_agent |-> "Nova",  name |-> NoName,  resume |-> FALSE],
      [as_agent |-> NoName,  name |-> "Nova",  resume |-> FALSE],
      [as_agent |-> "Nova",  name |-> "Nova",  resume |-> TRUE] }

\* the inputs that reach the code: list_agents is called (and may fail) only
\* for --resume without a name, and the server picks a name only when the
\* command has none
Lookup(o) == o.resume /\ o.as_agent = NoName /\ o.name = NoName

RepliesFor(o) == IF Lookup(o) THEN Replies ELSE { <<>> }

RpcFailuresFor(o) == IF Lookup(o) THEN RpcFailures ELSE RpcFailures \ {"list_agents"}

GeneratedFor(o, reply) ==
    IF o.as_agent = NoName /\ o.name = NoName /\ (~o.resume \/ FindResumableAgent(reply) = NoAgent)
    THEN Agents ELSE {"Nova"}

Next ==
    \/ \E p \in Procs, o \in RegisterOptions, force \in BOOLEAN, ttl \in Ttls :
         \E rpc \in RpcFailuresFor(o), reply \in RepliesFor(o) :
           \E gen \in GeneratedFor(o, reply) :
             Register(p, o.as_agent, o.name, o.resume, force, ttl, rpc, reply, gen, "ok")
    \/ \E p \in Procs, agent \in Agents, ttl \in Ttls : SessionHeartbeat(p, agent, ttl, "ok")
    \/ \E p \in Procs, agent \in Agents : SessionStatus(p, agent)
    \/ \E p \in Procs, files \in GlobOrders : SessionStatusAll(p, files)
    \/ \E p \in Procs, agent \in Agents : SessionEnd(p, agent)
    \/ Tick
    \/ \E p \in Mortal : ProcessExit(p)

Spec == Init /\ [][Next]_vars

----------------------------------------------------------------------------
(* delete, and the commands on a disk that cannot be written *)

\* the loop of delete over the agents named (lines 1361-1401): the agents
\* deleted, the agents whose remote call failed, the store afterwards.
\* fails: the agents for which delete_agent / agent_dependencies raises.
RECURSIVE DeleteLoop(_, _, _, _)
DeleteLoop(agents, st, dry_run, fails) ==
    IF agents = <<>> THEN [results |-> <<>>, errors |-> <<>>, store |-> st]
    ELSE LET agent == Head(agents) IN
         IF agent \in fails
         THEN LET rest == DeleteLoop(Tail(agents), st, dry_run, fails) IN
              [rest EXCEPT !.errors = <<agent>> \o rest.errors]
         ELSE LET st1  == IF dry_run THEN st
                          ELSE [st EXCEPT ![agent] = ClearSession(st[agent]).file]
                  rest == DeleteLoop(Tail(agents), st1, dry_run, fails)
              IN  [rest EXCEPT !.results = <<agent>> \o rest.results]

\* agent-mail delete AGENT... [--dry-run] [--json]
Delete(p, agents, dry_run, as_json, fails) ==
    LET r    == DeleteLoop(agents, store, dry_run, fails)
        base == [Last0 EXCEPT !.op = "delete", !.json = as_json, !.called = TRUE,
                              !.agent = Head(agents), !.prev = store[Head(agents)]]
    IN
    /\ p \in alive
    /\ last' = IF r.errors = <<>> THEN [base EXCEPT !.exit = 0, !.out = "deleted"]
               ELSE IF as_json
               THEN [base EXCEPT !.exit = 1, !.out = "remote_error", !.msg = "errors"]
               ELSE [base EXCEPT !.exit = 0, !.out = "remote_error",
                                 !.msg = "Failed to delete"]
    /\ store' = r.store
    /\ UNCHANGED <<tmp, now, alive, input, pc>>

\* the agent lists delete is given
DeleteLists == { <<"Nova">>, <<"Nova", "Olive">> }

NextFaults ==
    \/ Next
    \/ \E p \in Procs, o \in RegisterOptions, force \in BOOLEAN, ttl \in Ttls :
         \E reply \in RepliesFor(o) :
           \E gen \in GeneratedFor(o, reply) :
             Register(p, o.as_agent, o.name, o.resume, force, ttl, "none", reply, gen, "OSError")
    \/ \E p \in Procs, agent \in Agents, ttl \in Ttls :
         SessionHeartbeat(p, agent, ttl, "OSError")
    \/ \E p \in Procs, agents \in DeleteLists, dry_run \in BOOLEAN, as_json \in BOOLEAN :
         \E fails \in SUBSET {"Nova", "Olive"} :
           Delete(p, agents, dry_run, as_json, fails)

SpecFaults == Init /\ [][NextFaults]_vars

----------------------------------------------------------------------------
(* Identity resolution in a command: agent-mail inbox *)

\* the commands that act as an agent and resolve its name first
IdentityOps == {"inbox", "send", "reply", "ack", "whoami", "context"}

\* what each of them prints when no name is resolved
RequiredMessage(op) ==
    CASE op \in {"inbox", "whoami", "context"} -> "Error: Agent name is required."
      [] op \in {"send", "reply"}              -> "Error: --from is required."
      [] op = "ack"                            -> "Error: --agent is required."

\* context wraps each of its remote calls in try/except and goes on; the
\* other commands hand the error of their call to handle_error
ToolFailureFatal(op) == op # "context"

\* IdentityCommand, but the command goes on without a resolved name
IdentityCommand_Unchecked(op) ==
    LET r    == ResolveAgentName(input.agent, input.AGENT_MAIL_AGENT, input.AGENT_NAME,
                                 store, input.p, alive, HasPs, input.rpc, input.reply)
        base == [Last0 EXCEPT !.op = op, !.proc = input.p]
    IN
    /\ input.p \in alive
    /\ last.op = "none"
    /\ last' = IF r.res = "raise"
               THEN [base EXCEPT !.exit = 1, !.out = "remote_error", !.msg = "Error: remote"]
               ELSE IF input.rpc = "command" /\ ToolFailureFatal(op)
               THEN [base EXCEPT !.exit = 1, !.out = "remote_error", !.called = TRUE,
                                 !.name = r.name, !.src = r.src, !.msg = "Error: remote"]
               ELSE [base EXCEPT !.exit = 0, !.out = op, !.called = TRUE,
                                 !.name = r.name, !.src = r.src]
    /\ UNCHANGED <<tmp, store, now, alive, input, pc>>

\* a command of IdentityOps, with the arguments, environment and remote
\* behaviour of `input` (rpc "command": the command's own remote call fails)
IdentityCommand(op) ==
    LET r    == ResolveAgentName(input.agent, input.AGENT_MAIL_AGENT, input.AGENT_NAME,
                                 store, input.p, alive, HasPs, input.rpc, input.reply)
        base == [Last0 EXCEPT !.op = op, !.proc = input.p]
    IN
    /\ input.p \in alive
    /\ last.op = "none"
    /\ last' = IF r.res = "raise"
               THEN [base EXCEPT !.exit = 1, !.out = "remote_error", !.msg = "Error: remote"]
               ELSE IF r.name = NoName
               THEN [base EXCEPT !.exit = 1, !.out = "agent_required", !.src = r.src,
                                 !.msg = RequiredMessage(op)]
               ELSE IF input.rpc = "command" /\ ToolFailureFatal(op)
               THEN [base EXCEPT !.exit = 1, !.out = "remote_error", !.called = TRUE,
                                 !.name = r.name, !.src = r.src, !.msg = "Error: remote"]
               ELSE [base EXCEPT !.exit = 0, !.out = op, !.called = TRUE,
                                 !.name = r.name, !.src = r.src]
    /\ UNCHANGED <<tmp, store, now, alive, input, pc>>

\* agent-mail inbox [AGENT]
Inbox == IdentityCommand("inbox")

\* agent-mail send --from SENDER ...
Send == IdentityCommand("send")

\* agent-mail reply MESSAGE_ID --from SENDER ...
Reply == IdentityCommand("reply")

\* agent-mail ack MESSAGE_ID --agent AGENT
Ack == IdentityCommand("ack")

\* agent-mail whoami [AGENT]
Whoami == IdentityCommand("whoami")

\* agent-mail context [AGENT]
Context == IdentityCommand("context")

\* a session record as _write_session leaves it
Session(agent, started, expires, pid) ==
    SessionData(agent, isoformat(started), isoformat(expires), pid)

\* the session directories identity resolution is run on: empty, one file,
\* two files owned by different process trees, two files owned by processes
\* that are not running
ResolveStores ==
    { [a \in SessionNames |-> Absent],
      [a \in SessionNames |-> IF a = "Nova" THEN Session(a, 0, 2, 5) ELSE Absent],
      [a \in SessionNames |-> IF a = "Nova" THEN Session(a, 0, 2, 5) ELSE Session(a, 0, 2, 2)],
      [a \in SessionNames |-> IF a = "Nova" THEN Session(a, 0, 2, 7) ELSE Session(a, 0, 2, 8)] }

ResolveInputs ==
    [ agent : {NoName, "Zed"},
      AGENT_MAIL_AGENT : {NoName, "EnvOne"},
      AGENT_NAME : {NoName, "EnvTwo"},
      p : Procs,
      rpc : {"none", "list_agents", "command"},
      reply : Replies ]

InitResolve ==
    /\ store \in ResolveStores
    /\ now = 0
    /\ tmp = NoTmp
    /\ alive = Pids
    /\ last = Last0
    /\ pc = [p \in Procs |-> Idle]
    /\ input \in ResolveInputs

NextResolve ==
    \/ Inbox
    \/ Send
    \/ Reply
    \/ Ack
    \/ Whoami
    \/ Context

SpecResolve == InitResolve /\ [][NextResolve]_vars

----------------------------------------------------------------------------
(* The most-recent fallback on the replies list_agents can give *)

\* the agents the remote service may list (last_active_ts 0: the key is
\* missing)
AgentInfos ==
    { AgentInfo(n, ts, pol) : n \in {"Nova", "Olive"} \cup DeletedNames,
                              ts \in 0..2, pol \in {"auto", "block_all"} }

AgentLists == UNION { [1..n -> AgentInfos] : n \in 0..MaxAgents }

\* a command run with nothing but the remote service to name the agent
InitRecent ==
    /\ store = [a \in SessionNames |-> Absent]
    /\ now = 0
    /\ tmp = NoTmp
    /\ alive = Pids
    /\ last = Last0
    /\ pc = [p \in Procs |-> Idle]
    /\ input \in [ agent : {NoName}, AGENT_MAIL_AGENT : {NoName}, AGENT_NAME : {NoName},
                   p : Procs, rpc : {"none"}, reply : AgentLists ]

SpecRecent == InitRecent /\ [][NextResolve]_vars

----------------------------------------------------------------------------
(* The ancestry walk on the process tables and ps behaviours it may meet *)

\* _pid_in_ancestry(input.target) called in process input.p
PidInAncestryCall ==
    /\ input.p \in alive
    /\ last.op = "none"
    /\ last' = [Last0 EXCEPT !.op = "pid_in_ancestry", !.proc = input.p,
                             !.out = IF PidInAncestryOn(input.target, input.p, alive,
                                                        input.ps, input.out)
                                     THEN "True" ELSE "False"]
    /\ UNCHANGED <<tmp, store, now, alive, input, pc>>

\* the pids asked about: 0 (no pid recorded), init, the processes of the tree
Targets == {0, InitPid} \cup CliPids

InitAncestry ==
    /\ store = [a \in SessionNames |-> Absent]
    /\ now = 0
    /\ tmp = NoTmp
    /\ alive \in { Pids, Pids \ {2}, Pids \ {3} }
    /\ last = Last0
    /\ pc = [p \in Procs |-> Idle]
    /\ input \in [ target : Targets, p : Procs, ps : BOOLEAN, out : [CliPids -> PsOutcomes] ]
    \* a utility that is not installed cannot be run
    /\ ~input.ps => \A q \in CliPids : input.out[q] = "exception"

NextAncestry == PidInAncestryCall

SpecAncestry == InitAncestry /\ [][NextAncestry]_vars

----------------------------------------------------------------------------
(* Session files that _write_session did not leave as they are *)

\* the stored expires_at values: missing, not a string, not a date, a date
\* without a timezone, a date with one
ExpiryShapes(t) ==
    { [k |-> "missing"], [k |-> "nonstring"], [k |-> "unparseable"],
      [k |-> "naive", t |-> t], [k |-> "aware", t |-> t] }

\* file contents: not JSON, JSON that is not an object, an object with any
\* of the expires_at shapes
StoredShapes ==
    { [kind |-> "notjson"], [kind |-> "nonobject"] }
    \cup { SessionData("Nova", isoformat(0), e, 2) : e \in ExpiryShapes(1) }

Malformed(f) ==
    \/ f.kind \in {"notjson", "nonobject"}
    \/ f.kind = "object" /\ f.expires_at.k # "aware"

InitMalformed ==
    /\ store \in { [a \in SessionNames |-> IF a = "Nova" THEN f ELSE Absent] : f \in StoredShapes }
    /\ now = 0
    /\ tmp = NoTmp
    /\ alive = Pids
    /\ last = Last0
    /\ pc = [p \in Procs |-> Idle]
    /\ input = NoInput

SpecMalformed == InitMalformed /\ [][Next]_vars

----------------------------------------------------------------------------
(* The ancestry walk, one loop iteration at a time, on any parent-id chain *)

\* the pids a chain may lead through: the walker's own and two others
ChainPids == CliPids

\* a query that gives no parent id (ps raised, returned non-zero or printed
\* no number)
Fail == 0 - 1

\* what the query for a pid gives: no answer, init, or any pid, true to the
\* process table or not
Answers == {Fail, InitPid} \cup ChainPids

\* the loop iterations counted up to
MaxHops == 6

\* WalkIter, but a failed query is asked again
WalkIter_Retry(current, target_pid, answer, hops) ==
    IF current <= 1 THEN [at |-> "returned", value |-> FALSE]
    ELSE IF current = target_pid THEN [at |-> "returned", value |-> TRUE]
    ELSE IF answer = Fail THEN [at |-> "walk", current |-> current, hops |-> hops]
    ELSE [at |-> "walk", current |-> answer,
          hops |-> IF hops < MaxHops THEN hops + 1 ELSE hops]

\* one pass of `while current > 1:` in _pid_in_ancestry (lines 299-316);
\* answer: what ps gives for current; hops counts the passes, up to MaxHops
WalkIter(current, target_pid, answer, hops) ==
    IF current <= 1 THEN [at |-> "returned", value |-> FALSE]
    ELSE IF current = target_pid THEN [at |-> "returned", value |-> TRUE]
    ELSE IF answer = Fail THEN [at |-> "returned", value |-> FALSE]
    ELSE [at |-> "walk", current |-> answer,
          hops |-> IF hops < MaxHops THEN hops + 1 ELSE hops]

\* _pid_in_ancestry(input.target) is called in process p: lines 294-298
WalkBegin(p) ==
    /\ p = input.p
    /\ pc[p].at = "idle"
    /\ pc' = [pc EXCEPT ![p] =
                IF input.target <= 1 THEN [at |-> "returned", value |-> FALSE]
                ELSE IF ~HasPs THEN [at |-> "returned", value |-> FALSE]
                ELSE [at |-> "walk", current |-> p, hops |-> 0]]
    /\ UNCHANGED <<tmp, store, now, alive, last, input>>

\* the next pass of the loop in process p
WalkStep(p) ==
    /\ pc[p].at = "walk"
    /\ pc' = [pc EXCEPT ![p] =
                WalkIter(pc[p].current, input.target,
                         IF pc[p].current \in ChainPids THEN input.ppid[pc[p].current]
                         ELSE Fail,
                         pc[p].hops)]
    /\ UNCHANGED <<tmp, store, now, alive, last, input>>

InitWalk ==
    /\ store = [a \in SessionNames |-> Absent]
    /\ now = 0
    /\ tmp = NoTmp
    /\ alive = Pids
    /\ last = Last0
    /\ pc = [p \in Procs |-> Idle]
    /\ input \in [ p : Procs, target : {InitPid, 2, 3, 6}, ppid : [ChainPids -> Answers] ]

NextWalk == \E p \in Procs : WalkBegin(p) \/ WalkStep(p)

\* the walking process is a sequential program that keeps running
SpecWalk == InitWalk /\ [][NextWalk]_vars /\ WF_vars(NextWalk)

----------------------------------------------------------------------------
(* The session heartbeat hook (hooks/session_heartbeat.py) *)

\* a run within RateWindow seconds of the time in its rate-limit file does
\* nothing
RateWindow == 60

\* the --ttl the hook passes to session heartbeat
HookTtl == 300

\* the hook's clock runs from 0 to MaxHookTime
MaxHookTime == 60

\* shutil.which("agent-mail") finds the CLI
HasAgentMail == TRUE

\* _get_ppid(pid): 0 when ps is missing, fails or returns non-zero
GetPpid(pid, live) ==
    IF ~HasPs THEN 0
    ELSE LET proc == PsPpid(pid, live) IN
         IF proc.returncode # 0 THEN 0 ELSE proc.ppid

\* the loop of _is_ancestor from check_pid on
RECURSIVE IsAncestorWalk(_, _, _)
IsAncestorWalk(check_pid, candidate_pid, live) ==
    IF check_pid <= 1 THEN FALSE
    ELSE IF check_pid = candidate_pid THEN TRUE
    ELSE LET parent == GetPpid(check_pid, live) IN
         IF parent = 0 THEN FALSE
         ELSE IsAncestorWalk(parent, candidate_pid, live)

\* _is_ancestor(candidate_pid, current_pid)
IsAncestor(candidate_pid, current_pid, live) ==
    IsAncestorWalk(current_pid, candidate_pid, live)

\* HookLoop, but the first readable session is taken whoever owns it
RECURSIVE HookLoop_First(_, _, _, _)
HookLoop_First(files, st, h, live) ==
    IF files = <<>> THEN [res |-> "ok", name |-> NoName]
    ELSE LET payload == st[Head(files)] IN
         IF payload.kind = "notjson" THEN HookLoop_First(Tail(files), st, h, live)
         ELSE IF payload.kind = "nonobject" THEN [res |-> "raise", name |-> NoName]
         ELSE IF payload.pid <= 0 THEN HookLoop_First(Tail(files), st, h, live)
         ELSE [res |-> "ok", name |-> Head(files)]

\* the loop of main over the session files (lines 75-85) in hook process h:
\* the first session whose pid is h or an ancestor of it
RECURSIVE HookLoop(_, _, _, _)
HookLoop(files, st, h, live) ==
    IF files = <<>> THEN [res |-> "ok", name |-> NoName]
    ELSE LET payload == st[Head(files)] IN
         IF payload.kind = "notjson" THEN HookLoop(Tail(files), st, h, live)
         ELSE IF payload.kind = "nonobject" THEN [res |-> "raise", name |-> NoName]
         ELSE IF payload.pid <= 0 THEN HookLoop(Tail(files), st, h, live)
         ELSE IF IsAncestor(payload.pid, h, live) THEN [res |-> "ok", name |-> Head(files)]
         ELSE HookLoop(Tail(files), st, h, live)

\* what `agent-mail session heartbeat agent --ttl ttl` run by process p
\* leaves of the agent's file f
HeartbeatFile(f, agent, p, ttl, t, live) ==
    LET session == ReadSession(f, t) IN
    IF session.res = "data"
    THEN WriteSession(session.file, agent, p, ttl, t, live, HasPs).file
    ELSE session.file

\* one run of the hook as process h: main()
HookRun(h) ==
    LET limited  == tmp[h].k = "stamp" /\ now - tmp[h].t < RateWindow
        selected == HookLoop(SessionFiles(store), store, h, alive)
        base     == [Last0 EXCEPT !.op = "hook", !.proc = h, !.time = now]
    IN
    /\ h \in alive /\ HookChild(h) \in alive
    /\ IF limited
       THEN /\ last' = [base EXCEPT !.exit = 0, !.out = "rate_limited"]
            /\ UNCHANGED <<store, tmp>>
       ELSE IF ~HasAgentMail
       THEN /\ last' = [base EXCEPT !.exit = 0, !.out = "no_cli"]
            /\ UNCHANGED <<store, tmp>>
       ELSE IF selected.res = "raise"
       THEN /\ last' = [base EXCEPT !.exit = 1, !.out = "AttributeError"]
            /\ UNCHANGED <<store, tmp>>
       ELSE IF selected.name = NoName
       THEN /\ last' = [base EXCEPT !.exit = 0, !.out = "no_agent"]
            /\ UNCHANGED <<store, tmp>>
       ELSE LET file == HeartbeatFile(store[selected.name], selected.name,
                                      HookChild(h), HookTtl, now, alive)
            IN  /\ store' = [store EXCEPT ![selected.name] = file]
                /\ tmp' = [tmp EXCEPT ![h] = [k |-> "stamp", t |-> now]]
                /\ last' = [base EXCEPT !.exit = 0, !.out = "heartbeat",
                                        !.agent = selected.name, !.name = selected.name,
                                        !.prev = store[selected.name], !.ret = file]
    /\ UNCHANGED <<now, alive, input, pc>>

\* time passes between runs of the hook
HookWaits == {RateWindow - 1, RateWindow}

HookWait(d) ==
    /\ now + d <= MaxHookTime
    /\ now' = now + d
    /\ UNCHANGED <<tmp, store, alive, last, input, pc>>

\* the session directories the hook runs on
HookStores ==
    { [a \in SessionNames |-> IF a = "Nova" THEN f ELSE g] :
          f \in { Absent, [kind |-> "notjson"], [kind |-> "nonobject"] }
                \cup { Session("Nova", 0, e, o) : e \in {RateWindow - 1, HookTtl},
                                                   o \in {2, 5} },
          g \in { Absent } \cup { Session("Olive", 0, HookTtl, o) : o \in {2, 5} } }

InitHook ==
    /\ store \in HookStores
    /\ now = 0
    /\ tmp = NoTmp
    /\ alive = Pids
    /\ last = Last0
    /\ pc = [p \in Procs |-> Idle]
    /\ input = NoInput

NextHook ==
    \/ \E h \in HookProcs : HookRun(h)
    \/ \E d \in HookWaits : HookWait(d)
    \/ \E p \in Mortal : ProcessExit(p)

SpecHook == InitHook /\ [][NextHook]_vars

----------------------------------------------------------------------------
(* AgentMailClient.call_tool on the responses a JSON-RPC / MCP server sends *)

\* the tool called
ToolName == "send_message"

\* texts of a content item: empty, JSON, not JSON with and without
\* surrounding white space
JsonText == "{\"ok\": true}"
Texts == {"", JsonText, "boom", " boom "}

\* str.strip()
Strip(text) == IF text = " boom " THEN "boom" ELSE text

\* json.loads(text)
JsonLoads(text) ==
    IF text = JsonText THEN [res |-> "ok", value |-> [ok |-> TRUE]]
    ELSE [res |-> "JSONDecodeError"]

\* the top-level "error" member: absent, or an object whose members may be
\* missing ("" / "none": the key is missing)
ErrorShapes ==
    { [k |-> "absent"] }
    \cup { [k |-> "object", message |-> msg, code |-> c, data |-> c] :
               msg \in {"", "boom"}, c \in {"none", "123"} }

\* result.structuredContent: absent, not a dict, or a dict whose message,
\* error and result members may be missing
StructuredShapes ==
    { [k |-> "absent"], [k |-> "list"] }
    \cup { [k |-> "dict", message |-> msg, error |-> err, result |-> res] :
               msg \in {"", "bad request"}, err \in {"", "denied"},
               res \in {"none", "payload"} }

\* result.content: absent, empty, or a list whose first item has the text
ContentShapes ==
    { [k |-> "absent"], [k |-> "empty"] } \cup { [k |-> "list", text |-> t] : t \in Texts }

\* the "result" member: absent, not a dict, or an MCP tool result
ResultShapes ==
    { [k |-> "absent"], [k |-> "list"] }
    \cup [ k : {"dict"}, isError : BOOLEAN,
           structuredContent : StructuredShapes, content : ContentShapes ]

Responses == [ error : ErrorShapes, result : ResultShapes ]

Raise(message, code, data) ==
    [kind |-> "raise", exc |-> "AgentMailError", message |-> message,
     code |-> code, data |-> data]

Return(t, v) == [kind |-> "return", t |-> t, value |-> v]

\* call_tool, but structuredContent is returned before isError is looked at
CallTool_StructuredFirst(result) ==
    IF result.error.k # "absent"
    THEN Raise(IF result.error.message # "" THEN result.error.message ELSE "Unknown error",
               result.error.code, result.error.data)
    ELSE LET mcp_result == result.result IN
    IF mcp_result.k = "absent" THEN Return("dict", "{}")
    ELSE IF mcp_result.k # "dict" THEN Return("result", mcp_result)
    ELSE IF mcp_result.structuredContent.k # "absent"
    THEN LET structured == mcp_result.structuredContent IN
         IF structured.k = "dict" /\ structured.result # "none"
         THEN Return("unwrapped", structured.result)
         ELSE Return("structured", structured)
    ELSE IF mcp_result.isError
    THEN Raise("Tool '" \o ToolName \o "' failed", "none", mcp_result)
    ELSE Return("result", mcp_result)

\* call_tool(tool_name, arguments) on the decoded response body `result`
CallTool(result) ==
    IF result.error.k # "absent"
    THEN Raise(IF result.error.message # "" THEN result.error.message ELSE "Unknown error",
               result.error.code, result.error.data)
    ELSE LET mcp_result == result.result IN
    IF mcp_result.k = "absent" THEN Return("dict", "{}")
    ELSE IF mcp_result.k # "dict" THEN Return("result", mcp_result)
    ELSE IF mcp_result.isError
    THEN LET structured == mcp_result.structuredContent
             m1 == IF structured.k = "dict"
                   THEN IF structured.message # "" THEN structured.message
                        ELSE structured.error
                   ELSE ""
             m2 == IF m1 = "" /\ mcp_result.content.k = "list"
                   THEN Strip(mcp_result.content.text)
                   ELSE m1
         IN  Raise(IF m2 # "" THEN m2 ELSE "Tool '" \o ToolName \o "' failed",
                   "none", mcp_result)
    ELSE IF mcp_result.structuredContent.k # "absent"
    THEN LET structured == mcp_result.structuredContent IN
         IF structured.k = "dict" /\ structured.result # "none"
         THEN Return("unwrapped", structured.result)
         ELSE Return("structured", structured)
    ELSE IF mcp_result.content.k = "list"
    THEN LET text == mcp_result.content.text IN
         IF text = "" THEN Return("dict", "{}")
         ELSE IF JsonLoads(text).res = "ok" THEN Return("json", JsonLoads(text).value)
         ELSE Return("text", text)
    ELSE Return("result", mcp_result)

\* one call of call_tool on the response in `input`
CallToolCall ==
    /\ last.op = "none"
    /\ last' = [Last0 EXCEPT !.op = "call_tool", !.ret = CallTool(input)]
    /\ UNCHANGED <<tmp, store, now, alive, input, pc>>

InitCallTool ==
    /\ store = [a \in SessionNames |-> Absent]
    /\ now = 0
    /\ tmp = NoTmp
    /\ alive = Pids
    /\ last = Last0
    /\ pc = [p \in Procs |-> Idle]
    /\ input \in Responses

SpecCallTool == InitCallTool /\ [][CallToolCall]_vars

----------------------------------------------------------------------------
(* inbox-status and the project check before it *)

MaxProjects == 2

\* the projects list_projects may return: human_key and slug each equal to
\* the project key or not
ProjectInfos == [ human_key : {ProjectKey, "/tmp/q"}, slug : {ProjectKey, "tmp-q"} ]

ProjectLists == UNION { [1..n -> ProjectInfos] : n \in 0..MaxProjects }

\* the remote tools inbox-status calls
StatusTools == {"list_projects", "inbox_status"}

\* _project_exists, but a failing list_projects means the project is missing
ProjectExists_Strict(fails, projects, project_key) ==
    IF "list_projects" \in fails THEN FALSE
    ELSE \E i \in 1..Len(projects) :
            projects[i].human_key = project_key \/ projects[i].slug = project_key

\* _project_exists(client, project_key); fails: the tools whose call raises
ProjectExists(fails, projects, project_key) ==
    IF "list_projects" \in fails THEN TRUE
    ELSE \E i \in 1..Len(projects) :
            projects[i].human_key = project_key \/ projects[i].slug = project_key

\* the registration hint of inbox-status
Hint(project_key) ==
    "Project not registered: " \o project_key \o ". Run: agent-mail register"

\* agent-mail inbox-status [--agent A] [--json] in the project ProjectKey
InboxStatus ==
    LET base == [Last0 EXCEPT !.op = "inbox-status", !.proc = input.p,
                              !.json = input.json]
    IN
    /\ input.p \in alive
    /\ last.op = "none"
    /\ last' = IF ~ProjectExists(input.fails, input.projects, ProjectKey)
               THEN [base EXCEPT !.exit = 0,
                                 !.out = IF input.json THEN "project_not_found" ELSE "Note",
                                 !.msg = Hint(ProjectKey)]
               ELSE IF "inbox_status" \in input.fails
               THEN [base EXCEPT !.exit = 1, !.out = "remote_error", !.called = TRUE,
                                 !.msg = "Error: remote"]
               ELSE [base EXCEPT !.exit = 0, !.out = "inbox_status", !.called = TRUE]
    /\ UNCHANGED <<tmp, store, now, alive, input, pc>>

InitInboxStatus ==
    /\ store = [a \in SessionNames |-> Absent]
    /\ now = 0
    /\ tmp = NoTmp
    /\ alive = Pids
    /\ last = Last0
    /\ pc = [p \in Procs |-> Idle]
    /\ input \in [ p : Procs, json : BOOLEAN, fails : SUBSET StatusTools,
                   projects : ProjectLists ]

SpecInboxStatus == InitInboxStatus /\ [][InboxStatus]_vars

----------------------------------------------------------------------------
(* Identity resolution over session files that are expired or malformed *)

\* the time identity resolution runs at: records that expire before it are
\* void
StaleNow == 2

\* session directories holding a void file: alone, or next to a valid one
StaleStores ==
    { [a \in SessionNames |-> IF a = "Nova" THEN f ELSE Absent] : f \in StoredShapes }
    \cup { [a \in SessionNames |-> IF a = "Nova" THEN Session(a, 0, e, o) ELSE Absent] :
               e \in 1..3, o \in {2, 5} }
    \cup { [a \in SessionNames |-> IF a = "Nova" THEN Session(a, 0, e, 2)
                                                 ELSE Session(a, 0, 3, 5)] : e \in 1..3 }

InitStale ==
    /\ store \in StaleStores
    /\ now = StaleNow
    /\ tmp = NoTmp
    /\ alive = Pids
    /\ last = Last0
    /\ pc = [p \in Procs |-> Idle]
    /\ input \in ResolveInputs

SpecStale == InitStale /\ [][NextResolve]_vars

----------------------------------------------------------------------------
(* register step by step: processes that run it at the same time *)

\* the agent name the racing processes register
RaceName == "Nova"

\* register --as RaceName --ttl T (no --force) in process p, up to and
\* including its conflict check (lines 960-1002): refused on a conflict,
\* else on its way to the remote call
RegisterCheck(p, ttl) ==
    LET check == CheckSessionConflict(store[RaceName], p, now, alive)
        base  == [Last0 EXCEPT !.op = "register", !.proc = p, !.agent = RaceName,
                               !.named = TRUE, !.prev = store[RaceName],
                               !.conflict = check.res]
    IN
    /\ p \in alive
    /\ pc[p].at = "idle"
    /\ check.res # "raise"
    /\ store' = [store EXCEPT ![RaceName] = check.file]
    /\ IF check.res = "conflict"
       THEN /\ last' = [base EXCEPT !.exit = 1, !.out = "session_conflict",
                                    !.ret = store[RaceName],
                                    !.report = <<store[RaceName].pid,
                                                 FormatSessionExpiry(store[RaceName], now)>>]
            /\ pc' = [pc EXCEPT ![p] = [at |-> "done", exit |-> 1, ttl |-> ttl,
                                        time |-> now, pid |-> 0]]
       ELSE /\ last' = last
            /\ pc' = [pc EXCEPT ![p] = [at |-> "checked", ttl |-> ttl]]
    /\ UNCHANGED <<tmp, now, alive, input>>

\* client.register_agent(...) returns to process p (lines 1004-1012), or
\* fails
RegisterCall(p, rpc) ==
    /\ p \in alive
    /\ pc[p].at = "checked"
    /\ IF rpc = "register_agent"
       THEN /\ last' = [Last0 EXCEPT !.op = "register", !.proc = p, !.agent = RaceName,
                                     !.named = TRUE, !.prev = store[RaceName],
                                     !.conflict = "none", !.called = TRUE,
                                     !.exit = 1, !.out = "remote_error"]
            /\ pc' = [pc EXCEPT ![p] = [at |-> "done", exit |-> 1, ttl |-> pc[p].ttl,
                                        time |-> now, pid |-> 0]]
       ELSE /\ last' = last
            /\ pc' = [pc EXCEPT ![p] = [at |-> "called", ttl |-> pc[p].ttl]]
    /\ UNCHANGED <<tmp, store, now, alive, input>>

\* _write_session(project_key, agent_name, ttl_seconds=ttl) in process p
\* (line 1015) and the end of the command
RegisterWrite(p) ==
    LET written == WriteSessionOn("ok", store[RaceName], RaceName, p, pc[p].ttl, now, alive, HasPs) IN
    /\ p \in alive
    /\ pc[p].at = "called"
    /\ written.res # "raise"
    /\ store' = [store EXCEPT ![RaceName] = written.file]
    /\ last' = [Last0 EXCEPT !.op = "register", !.proc = p, !.agent = RaceName,
                             !.named = TRUE, !.prev = store[RaceName],
                             !.conflict = "none", !.called = TRUE,
                             !.exit = 0, !.out = "registered", !.ttl = pc[p].ttl,
                             !.time = now, !.ret = written.file, !.pid = written.file.pid]
    /\ pc' = [pc EXCEPT ![p] = [at |-> "done", exit |-> 0, ttl |-> pc[p].ttl, time |-> now,
                                pid |-> StablePid(p, alive, HasPs)]]
    /\ UNCHANGED <<tmp, now, alive, input>>

NextRace ==
    \/ \E p \in Procs, ttl \in Ttls : RegisterCheck(p, ttl)
    \/ \E p \in Procs, rpc \in {"none", "register_agent"} : RegisterCall(p, rpc)
    \/ \E p \in Procs : RegisterWrite(p)
    \/ Tick
    \/ \E p \in Mortal : ProcessExit(p)

SpecRace == Init /\ [][NextRace]_vars

----------------------------------------------------------------------------
(* _clear_session, its two file operations apart, in concurrent processes *)

\* `session end RaceName` in process p, up to and including
\* session_file.exists() of _clear_session (line 237)
ClearExists(p) ==
    /\ p \in alive
    /\ pc[p].at = "idle"
    /\ pc' = [pc EXCEPT ![p] =
                IF store[RaceName].kind # "absent"
                THEN [at |-> "exists"]
                ELSE [at |-> "done", ret |-> FALSE, exc |-> "none", exit |-> 0]]
    /\ UNCHANGED <<tmp, store, now, alive, last, input>>

\* session_file.unlink() of _clear_session (line 238) in process p and the
\* end of the command: unlink of a file that is gone raises
\* FileNotFoundError, which handle_error turns into exit 1
ClearUnlink(p) ==
    /\ p \in alive
    /\ pc[p].at = "exists"
    /\ IF store[RaceName].kind # "absent"
       THEN /\ store' = [store EXCEPT ![RaceName] = Absent]
            /\ pc' = [pc EXCEPT ![p] =
                         [at |-> "done", ret |-> TRUE, exc |-> "none", exit |-> 0]]
       ELSE /\ store' = store
            /\ pc' = [pc EXCEPT ![p] =
                         [at |-> "done", ret |-> FALSE, exc |-> "FileNotFoundError",
                          exit |-> 1]]
    /\ UNCHANGED <<tmp, now, alive, last, input>>

\* the records the processes set out to clear
ClearStores ==
    { [a \in SessionNames |-> IF a = RaceName THEN Session(a, 0, e, o) ELSE Absent] :
          e \in 0..MaxTtl, o \in {2, 3, 5} }

InitClear ==
    /\ store \in ClearStores
    /\ now = 0
    /\ tmp = NoTmp
    /\ alive = Pids
    /\ last = Last0
    /\ pc = [p \in Procs |-> Idle]
    /\ input = NoInput

NextClear ==
    \/ \E p \in Procs : ClearExists(p)
    \/ \E p \in Procs : ClearUnlink(p)
    \/ Tick

SpecClear == InitClear /\ [][NextClear]_vars

----------------------------------------------------------------------------
(* Vocabulary of the properties *)

\* a step taken by a command: the clock and the process table stand still
CmdStep == now' = now /\ alive' = alive

\* a well-formed record whose expires_at is not before t
Unexpired(f, t) == f.kind = "object" /\ f.expires_at.k = "aware" /\ f.expires_at.t >= t

\* a well-formed record whose expires_at is strictly before t
Expired(f, t) == f.kind = "object" /\ f.expires_at.k = "aware" /\ f.expires_at.t < t

\* the record's owner is a running process other than p
LiveForeignOwner(f, p, live) == f.pid # p /\ f.pid \in live

----------------------------------------------------------------------------
(* C2 *)

\* C2: register of a named agent without --force, when an unexpired record
\* of that agent is owned by a running process other than the caller, exits
\* non-zero without calling register_agent and leaves the store as it was;
\* unless a remote call before the check failed, it reports the conflict with
\* the owner's pid and the time left.
C2_ConflictRefused ==
    [][ ( /\ CmdStep
          /\ last'.op = "register" /\ last'.named /\ ~last'.force
          /\ Unexpired(store[last'.agent], now)
          /\ LiveForeignOwner(store[last'.agent], last'.proc, alive) )
        => /\ last'.exit # 0
           /\ ~last'.called
           /\ store' = store
           /\ \/ last'.out = "remote_error"
              \/ /\ last'.out = "session_conflict"
                 /\ last'.report = << store[last'.agent].pid,
                                      << store[last'.agent].expires_at.t - now, "s" >> >>
      ]_vars

C2_Witness ==
    /\ last.op = "register" /\ last.out = "session_conflict" /\ ~last.force
    /\ last.prev.kind = "object" /\ last.prev.pid # last.proc /\ last.prev.pid \in alive
    /\ store[last.agent] = last.prev

----------------------------------------------------------------------------
(* C3 *)

\* C3: register of a named agent with --force makes no conflict check, and
\* when register_agent succeeds the agent's record afterwards has the
\* registrant's stable pid as owner and expires_at = now + ttl, whatever
\* record was there.
C3_ForceOverwrites ==
    [][ ( CmdStep /\ last'.op = "register" /\ last'.named /\ last'.force )
        => /\ last'.conflict = "unchecked"
           /\ (last'.called /\ last'.out # "remote_error")
                => /\ last'.exit = 0
                   /\ store'[last'.agent].kind = "object"
                   /\ store'[last'.agent].agent = last'.agent
                   /\ store'[last'.agent].pid = StablePid(last'.proc, alive, HasPs)
                   /\ store'[last'.agent].expires_at = isoformat(now + last'.ttl)
      ]_vars

C3_Witness ==
    /\ last.op = "register" /\ last.force /\ last.out = "registered"
    /\ last.prev.kind = "object" /\ last.prev.pid # last.pid /\ last.prev.pid \in alive
    /\ last.prev.pid # last.proc
    /\ store[last.agent].pid = last.pid

----------------------------------------------------------------------------
(* C4 *)

\* C4: the conflict check reports a conflict exactly when the record is
\* present and unexpired, its owner is not the caller and its owner is
\* running.  Without a conflict the record is left in place when the caller
\* owns it and is gone when it was absent, expired or owned by a process
\* that no longer runs (seen when register_agent then fails, so that nothing
\* is written after the check).
C4_ConflictExactly ==
    [][ ( CmdStep /\ last'.op = "register" /\ last'.conflict # "unchecked" )
        => /\ last'.conflict \in {"conflict", "none"}
           /\ last'.conflict = "conflict"
                <=> ( /\ Unexpired(store[last'.agent], now)
                      /\ LiveForeignOwner(store[last'.agent], last'.proc, alive) )
           /\ last'.conflict = "conflict" => store' = store
           /\ (last'.called /\ last'.out = "remote_error")
                => store'[last'.agent] =
                     IF /\ Unexpired(store[last'.agent], now)
                        /\ store[last'.agent].pid = last'.proc
                     THEN store[last'.agent] ELSE Absent
      ]_vars

C4_Witness ==
    /\ last.op = "register" /\ last.conflict = "none"
    /\ last.called /\ last.out = "remote_error"
    /\ last.prev.kind = "object" /\ last.prev.expires_at.t >= now
    /\ last.prev.pid # last.proc /\ last.prev.pid \notin alive
    /\ store[last.agent] = Absent

----------------------------------------------------------------------------
(* C5 *)

\* C5: session status of an agent whose record expired strictly before now
\* reports it inactive, deletes the file, and the listing of the project no
\* longer has it; a record that has not expired is returned as stored and
\* kept.  The listing itself returns exactly the unexpired records and
\* deletes the expired ones.
C5_ExpiredReadAbsent ==
    [][ /\ ( CmdStep /\ last'.op = "status" /\ store[last'.agent].kind = "object" )
           => IF store[last'.agent].expires_at.t < now
              THEN /\ last'.out = "inactive" /\ last'.ret = Absent
                   /\ store'[last'.agent] = Absent
                   /\ \A r \in ListSessions(SortedAgents, store', now).sessions :
                         r.agent # last'.agent
              ELSE /\ last'.out = "active" /\ last'.ret = store[last'.agent]
                   /\ store' = store
        /\ ( CmdStep /\ last'.op = "list" )
           => /\ last'.listed = { store[a] : a \in { b \in SessionNames : Unexpired(store[b], now) } }
              /\ \A a \in SessionNames :
                    store'[a] = IF Expired(store[a], now) THEN Absent ELSE store[a]
      ]_vars

C5_Witness ==
    /\ last.op = "status" /\ last.out = "inactive"
    /\ last.prev.kind = "object"
    /\ store[last.agent] = Absent

----------------------------------------------------------------------------
(* C6 *)

\* a successful heartbeat or registration of an agent whose record has not
\* expired
Renewal ==
    /\ CmdStep
    /\ last'.op \in {"heartbeat", "register"} /\ last'.exit = 0
    /\ Unexpired(store[last'.agent], now)

\* a registration without --force that finds the record's owner gone
StaleTakeover ==
    /\ last'.op = "register" /\ ~last'.force
    /\ store[last'.agent].pid # last'.proc
    /\ store[last'.agent].pid \notin alive

\* C6 as claimed: every heartbeat or re-registration made before the record
\* has expired leaves started_at as it was.
C6_Claimed ==
    [][ Renewal => store'[last'.agent].started_at = store[last'.agent].started_at ]_vars

\* C6 as amended: every heartbeat or re-registration made before the record
\* has expired leaves started_at as it was, except a registration without
\* --force that finds the owner process gone: that one clears the record and
\* the new record starts at the time of the registration.
C6_StartedAtPreserved ==
    [][ Renewal
        => IF StaleTakeover
           THEN store'[last'.agent].started_at = isoformat(now)
           ELSE store'[last'.agent].started_at = store[last'.agent].started_at ]_vars

C6_Witness ==
    /\ last.op = "heartbeat" /\ last.out = "extended"
    /\ last.prev.kind = "object"
    /\ last.prev.started_at.t < last.prev.expires_at.t - MaxTtl
    /\ last.time > last.prev.started_at.t
    /\ store[last.agent].started_at = last.prev.started_at

----------------------------------------------------------------------------
(* C7 *)

\* C7: after a successful write (register or heartbeat) of an agent's record
\* at time t with ttl, a read of it (session status) at a time before t + ttl,
\* with only time passing or processes exiting in between, returns a record
\* with that agent and project, the owner pid the write recorded, and
\* expires_at = t + ttl.
C7_WriteThenRead ==
    [][ ( /\ CmdStep
          /\ last.out \in {"registered", "extended"}
          /\ last'.op = "status" /\ last'.agent = last.agent
          /\ last.ttl > 0 /\ now < last.time + last.ttl )
        => /\ last'.out = "active"
           /\ last'.ret.agent = last.agent
           /\ last'.ret.project = ProjectKey
           /\ last'.ret.pid = last.pid
           /\ last'.ret.expires_at = isoformat(last.time + last.ttl)
      ]_vars

\* a read returns a renewed record whose expiry is further from started_at
\* than any ttl
C7_Witness ==
    /\ last.op = "status" /\ last.out = "active"
    /\ last.ret.expires_at.t > last.ret.started_at.t + MaxTtl
    /\ store[last.agent] = last.ret

----------------------------------------------------------------------------
(* C8 *)

\* C8: session end of an agent without a session file reports cleared=false,
\* exits 0 and changes nothing; with a file it reports cleared=true and the
\* file is gone, so that a read finds nothing and a second clear finds
\* nothing to do and leaves the store as the first left it.
C8_ClearIdempotent ==
    [][ /\ ( CmdStep /\ last'.op = "end" )
           => /\ last'.exit = 0
              /\ IF store[last'.agent].kind = "absent"
                 THEN last'.out = "not_cleared" /\ store' = store
                 ELSE /\ last'.out = "cleared"
                      /\ store' = [store EXCEPT ![last'.agent] = Absent]
        /\ ( CmdStep /\ last.op = "end" /\ last'.op = "status" /\ last'.agent = last.agent )
           => last'.out = "inactive" /\ last'.ret = Absent
        /\ ( CmdStep /\ last.op = "end" /\ last'.op = "end" /\ last'.agent = last.agent )
           => last'.out = "not_cleared" /\ store' = store
      ]_vars

C8_Witness ==
    /\ last.op = "end" /\ last.out = "cleared"
    /\ last.prev.kind = "object"
    /\ store[last.agent] = Absent

----------------------------------------------------------------------------
(* C9 *)

\* C9 as claimed: a read (session status) of a record whose owner process is
\* gone reports the agent inactive and deletes the file.
C9_Claimed ==
    [][ ( /\ CmdStep /\ last'.op = "status"
          /\ store[last'.agent].kind = "object"
          /\ store[last'.agent].pid \notin alive )
        => last'.out = "inactive" /\ store'[last'.agent] = Absent ]_vars

\* C9 as amended: a record whose owner process is gone is treated as absent
\* by the conflict check of register (no conflict is reported and the stale
\* file is deleted before anything is written), whereas a read does not look
\* at the owner: while such a record has not expired, session status returns
\* it and leaves it in place.
C9_StaleClearedByConflictCheck ==
    [][ /\ ( /\ CmdStep /\ last'.op = "register" /\ last'.conflict # "unchecked"
             /\ store[last'.agent].kind = "object"
             /\ store[last'.agent].pid \notin alive )
           => /\ last'.conflict = "none"
              /\ last'.out = "remote_error" => store'[last'.agent] = Absent
              /\ last'.out = "registered"
                   => store'[last'.agent].started_at = isoformat(now)
        /\ ( /\ CmdStep /\ last'.op = "status"
             /\ Unexpired(store[last'.agent], now)
             /\ store[last'.agent].pid \notin alive )
           => /\ last'.out = "active" /\ last'.ret = store[last'.agent]
              /\ store' = store
      ]_vars

C9_Witness ==
    /\ last.op = "register" /\ last.conflict = "none" /\ last.out = "registered"
    /\ last.prev.kind = "object" /\ last.prev.pid \notin alive
    /\ last.prev.expires_at.t >= now
    /\ last.prev.started_at.t < last.time
    /\ store[last.agent].started_at = isoformat(last.time)

----------------------------------------------------------------------------
(* C1 *)

\* the environment override: AGENT_MAIL_AGENT, then AGENT_NAME
EnvOverride == IF input.AGENT_MAIL_AGENT # NoName THEN input.AGENT_MAIL_AGENT ELSE input.AGENT_NAME

\* the local session match of the resolving process
SessionMatch == DetectAgentFromSession(store, input.p, alive, HasPs).name

\* the remote most-recently-active agent
RemoteRecent == FindResumableAgent(input.reply)

\* C1: the identity a command resolves is the explicit name (no source tag)
\* when one is given; else the environment override (tag env) when one is
\* set; else the local session match (tag session) when there is one; else
\* the remote most recent agent (tag recent) when list_agents returns one;
\* else nothing.  (The case in which list_agents fails is C11's.)
C1_Precedence ==
    last.op = "inbox" =>
        IF input.agent # NoName THEN last.name = input.agent /\ last.src = "none"
        ELSE IF EnvOverride # NoName THEN last.name = EnvOverride /\ last.src = "env"
        ELSE IF SessionMatch # NoName THEN last.name = SessionMatch /\ last.src = "session"
        ELSE IF input.rpc = "list_agents" THEN TRUE
        ELSE IF RemoteRecent # NoAgent THEN last.name = RemoteRecent.name /\ last.src = "recent"
        ELSE last.name = NoName /\ last.src = "none" /\ last.out = "agent_required"

\* the session match wins although the environment is empty and the remote
\* service has a more recent agent to offer
C1_Witness ==
    /\ last.op = "inbox" /\ last.src = "session"
    /\ input.agent = NoName /\ EnvOverride = NoName
    /\ RemoteRecent # NoAgent /\ RemoteRecent.name # last.name

----------------------------------------------------------------------------
(* C10 *)

\* C10: session status of an agent whose session file is malformed (not
\* JSON, not an object, expires_at missing, not a string, not a date, or
\* without a timezone) reports the agent inactive and exits 0.
C10_MalformedIsAbsent ==
    ( last.op = "status" /\ Malformed(last.prev) )
        => last.out = "inactive" /\ last.exit = 0

----------------------------------------------------------------------------
(* C11 *)

\* C11: when a command has no explicit name, no environment override and no
\* local session match, and the list_agents call of the most-recent fallback
\* fails, the resolver returns nothing and the command reports that an agent
\* name is required.
C11_RemoteFailureIsNoCandidate ==
    ( /\ last.op \in IdentityOps
      /\ input.agent = NoName /\ EnvOverride = NoName /\ SessionMatch = NoName
      /\ input.rpc = "list_agents" )
        => /\ last.out = "agent_required"
           /\ last.msg = RequiredMessage(last.op)
           /\ last.name = NoName

----------------------------------------------------------------------------
(* C14 *)

\* C14: when a command of IdentityOps has no explicit name, no environment
\* override, no local session match and list_agents returns no candidate, it
\* exits non-zero with its "... is required" message and makes no remote call
\* as any agent.
C14_UnresolvedRefused ==
    ( /\ last.op \in IdentityOps
      /\ input.agent = NoName /\ EnvOverride = NoName /\ SessionMatch = NoName
      /\ input.rpc # "list_agents" /\ RemoteRecent = NoAgent )
        => /\ last.exit # 0
           /\ last.out = "agent_required"
           /\ last.msg = RequiredMessage(last.op)
           /\ ~last.called
           /\ last.name = NoName

\* send is refused although session files exist (none owned by an ancestor)
\* and the remote service lists an agent (one that blocks all contact)
C14_Witness ==
    /\ last.op = "send" /\ last.out = "agent_required" /\ last.exit = 1
    /\ SessionFiles(store) # <<>>
    /\ input.reply # <<>>
    /\ input.rpc = "command"

----------------------------------------------------------------------------
(* C12 *)

\* the positions of the reply whose agent is neither deleted nor blocking
\* all contact
Remaining == { i \in 1..Len(input.reply) :
                 /\ input.reply[i].name \notin DeletedNames
                 /\ input.reply[i].contact_policy # "block_all" }

\* C12: the agent the most-recent fallback names is never a deleted one nor
\* one that blocks all contact; it is one of the remaining agents with the
\* greatest last_active_ts (a missing one ranks lowest); and no agent is
\* named exactly when none remains.
C12_MostRecentActive ==
    last.op \in IdentityOps =>
        IF Remaining = {}
        THEN last.name = NoName /\ last.src = "none" /\ last.out = "agent_required"
        ELSE /\ last.src = "recent"
             /\ \E i \in Remaining :
                   /\ input.reply[i].name = last.name
                   /\ \A j \in Remaining :
                         input.reply[j].last_active_ts <= input.reply[i].last_active_ts

\* the agent named comes second in the reply, after one that is more recent
\* but deleted or blocking
C12_Witness ==
    /\ last.op = "whoami" /\ last.src = "recent"
    /\ Len(input.reply) = 2
    /\ input.reply[2].name = last.name
    /\ input.reply[1].name # last.name
    /\ input.reply[1].last_active_ts > input.reply[2].last_active_ts

----------------------------------------------------------------------------
(* C13 *)

\* the running processes from p up to, not including, init
RECURSIVE Ancestors(_, _)
Ancestors(p, live) ==
    IF p <= 1 THEN {} ELSE {p} \cup Ancestors(getppid(p, live), live)

\* the agents whose session record is owned by the resolving process or
\* one of its ancestors
OwnedByAncestry ==
    { a \in SessionNames : store[a].kind = "object"
                           /\ store[a].pid \in Ancestors(input.p, alive) }

\* C13: with two or more session files, and neither an explicit name nor an
\* environment override, the name resolved from the sessions is that of a
\* record owned by the resolving process or an ancestor of it; when no record
\* is, no name comes from the sessions and the resolution goes on to the
\* remote fallback.
C13_SessionByAncestry ==
    ( /\ last.op \in IdentityOps
      /\ input.agent = NoName /\ EnvOverride = NoName
      /\ Len(SessionFiles(store)) >= 2 )
        => IF OwnedByAncestry # {}
           THEN last.src = "session" /\ last.name \in OwnedByAncestry
           ELSE /\ last.src # "session"
                /\ input.rpc # "list_agents" =>
                     IF RemoteRecent = NoAgent THEN last.name = NoName
                     ELSE last.name = RemoteRecent.name /\ last.src = "recent"

\* the second file in name order is chosen; the first is owned by a running
\* process outside the ancestry
C13_Witness ==
    /\ last.op = "ack" /\ last.src = "session" /\ last.name = "Olive"
    /\ store["Nova"].kind = "object"
    /\ store["Nova"].pid \in alive
    /\ store["Nova"].pid \notin Ancestors(input.p, alive)
    /\ store["Olive"].pid \in Ancestors(input.p, alive) \ {input.p}

----------------------------------------------------------------------------
(* C15 *)

\* where the chain goes from pid c: to the parent ps prints, or nowhere (0)
\* when c is init or below, or the query fails, or prints no number
ChainStep(c) ==
    IF c <= 1 THEN 0
    ELSE IF input.out[c] # "ok" \/ c \notin alive THEN 0
    ELSE getppid(c, alive)

\* the target is above 1 and is met on the chain from the calling process
\* (the process tree is no deeper than four)
ChainMeets ==
    /\ input.target > 1
    /\ input.target \in { input.p, ChainStep(input.p), ChainStep(ChainStep(input.p)),
                          ChainStep(ChainStep(ChainStep(input.p))) }

\* C15 as claimed: the walk returns true exactly when the target is met on
\* the chain before the chain ends.
C15_Claimed ==
    last.op = "pid_in_ancestry" => (last.out = "True" <=> ChainMeets)

\* C15 as amended: on a host with the ps utility the walk returns true
\* exactly when the target is met on the chain before the chain ends; on a
\* host without it the walk returns false for every target, the calling
\* process itself included.  It returns one or the other in every case.
C15_AncestryWalk ==
    last.op = "pid_in_ancestry" =>
        /\ last.out \in {"True", "False"}
        /\ last.exit = 0
        /\ last.out = "True" <=> (input.ps /\ ChainMeets)

\* the host of the calling process is found two steps up, although the query
\* for the host itself would fail
C15_Witness ==
    /\ last.op = "pid_in_ancestry" /\ last.out = "True"
    /\ input.target = 2 /\ input.p = 4
    /\ input.out[2] = "unparseable"

----------------------------------------------------------------------------
(* C16 *)

\* both processes have come to the end of their register run
BothDone == \A p \in Procs : pc[p].at = "done"

\* both ended it with exit status 0
BothRegistered == BothDone /\ \A p \in Procs : pc[p].exit = 0

\* C16: when two processes have each run register of the same name without
\* --force to a successful end, in whatever interleaving of their conflict
\* checks, remote calls and writes, there is one record of that name and it
\* is the one the process that wrote last wrote: its owner is that process's
\* stable pid and its expiry is that write's.
C16_LastWriterOwns ==
    BothRegistered =>
        /\ last.op = "register" /\ last.out = "registered"
        /\ store[RaceName].kind = "object"
        /\ store[RaceName] = last.ret
        /\ store[RaceName].pid = pc[last.proc].pid
        /\ store[RaceName].expires_at = isoformat(pc[last.proc].time + pc[last.proc].ttl)
        /\ \A q \in Procs : pc[q].time <= pc[last.proc].time

\* both have registered; the one that wrote first is still running and its
\* record had not expired when the other wrote over it, so that a conflict
\* check made after the first write would have refused the second
C16_Witness ==
    /\ BothRegistered
    /\ \E q \in Procs \ {last.proc} :
          /\ pc[q].pid \in alive
          /\ pc[q].pid # pc[last.proc].pid
          /\ pc[q].pid # last.proc
          /\ pc[q].time + pc[q].ttl >= pc[last.proc].time
          /\ store[RaceName].pid # pc[q].pid

----------------------------------------------------------------------------
(* C17 *)

\* C17: a command that ends in a session conflict, without a resolved agent
\* name, or with a failed remote call exits with a non-zero status; delete
\* does so with and without --json.
C17_ErrorsExitNonZero ==
    last.out \in {"session_conflict", "agent_required", "remote_error"}
        => last.exit # 0

----------------------------------------------------------------------------
(* C18 *)

\* C18: when writing the session file fails, register (its remote
\* registration done) and session heartbeat (on an unexpired session) still
\* exit 0.
C18_WriteFailureSwallowed ==
    ( last.op \in {"register", "heartbeat"} /\ last.disk = "OSError" )
        => last.exit = 0

----------------------------------------------------------------------------
(* C19 *)

\* C19: a successful session heartbeat leaves the record's agent, project,
\* started_at and owner pid as they were and sets expires_at to now + ttl,
\* whichever process issues it.
C19_HeartbeatKeepsIdentity ==
    [][ ( CmdStep /\ last'.op = "heartbeat" /\ last'.exit = 0 )
        => /\ store'[last'.agent].agent = store[last'.agent].agent
           /\ store'[last'.agent].project = store[last'.agent].project
           /\ store'[last'.agent].started_at = store[last'.agent].started_at
           /\ store'[last'.agent].expires_at = isoformat(now + last'.ttl)
           /\ store'[last'.agent].pid = store[last'.agent].pid
      ]_vars

----------------------------------------------------------------------------
(* C20 *)

\* C20: register of a named agent without --force, run when the agent's
\* record has expired, meets no conflict, whether or not the record's owner
\* still runs: if register_agent succeeds the command exits 0 and the record
\* is a new one, owned by the registrant.  And a heartbeat that comes less
\* than ttl after the successful registration or heartbeat before it finds
\* the session and extends it.
C20_VoidAfterExpiry ==
    [][ /\ ( /\ CmdStep
             /\ last'.op = "register" /\ last'.named /\ ~last'.force
             /\ Expired(store[last'.agent], now) )
           => /\ last'.out # "session_conflict"
              /\ last'.conflict \in {"none", "unchecked"}
              /\ last'.out # "remote_error"
                   => /\ last'.exit = 0 /\ last'.conflict = "none"
                      /\ store'[last'.agent].pid = StablePid(last'.proc, alive, HasPs)
                      /\ store'[last'.agent].started_at = isoformat(now)
                      /\ store'[last'.agent].expires_at = isoformat(now + last'.ttl)
        /\ ( /\ CmdStep
             /\ last.out \in {"registered", "extended"}
             /\ last'.op = "heartbeat" /\ last'.agent = last.agent
             /\ now < last.time + last.ttl )
           => /\ last'.out = "extended" /\ last'.exit = 0
              /\ store'[last'.agent].expires_at = isoformat(now + last'.ttl)
      ]_vars

\* a process has registered over an expired record whose owner, in another
\* process tree, still runs
C20_Witness ==
    /\ last.op = "register" /\ ~last.force /\ last.out = "registered"
    /\ last.conflict = "none"
    /\ last.prev.kind = "object"
    /\ last.prev.expires_at.t < last.time
    /\ last.prev.pid \in alive
    /\ last.prev.pid # last.proc /\ last.prev.pid # last.pid
    /\ store[last.agent].pid = last.pid

----------------------------------------------------------------------------
(* C21 *)

\* C21: session end of an agent, by whichever process, exits 0 and leaves no
\* record of that agent, reporting cleared exactly when there was a file; a
\* status that follows reports the agent inactive; and register of a named
\* agent without --force that finds no record of it meets no conflict and,
\* when register_agent succeeds, registers.
C21_EndReleases ==
    [][ /\ ( CmdStep /\ last'.op = "end" )
           => /\ last'.exit = 0
              /\ store'[last'.agent] = Absent
              /\ last'.out = IF store[last'.agent].kind = "absent"
                             THEN "not_cleared" ELSE "cleared"
              /\ \A a \in SessionNames \ {last'.agent} : store'[a] = store[a]
        /\ ( /\ CmdStep /\ last.op = "end"
             /\ last'.op = "status" /\ last'.agent = last.agent )
           => last'.out = "inactive"
        /\ ( /\ CmdStep
             /\ last'.op = "register" /\ last'.named /\ ~last'.force
             /\ store[last'.agent].kind = "absent" )
           => /\ last'.out # "session_conflict"
              /\ last'.conflict \in {"none", "unchecked"}
              /\ last'.out # "remote_error"
                   => last'.exit = 0 /\ last'.out = "registered"
      ]_vars

\* a process has ended a session that a running process of another tree
\* owns and that has not expired
C21_Witness ==
    /\ last.op = "end" /\ last.out = "cleared"
    /\ last.prev.kind = "object"
    /\ last.prev.expires_at.t >= now
    /\ last.prev.pid \in alive
    /\ last.prev.pid # last.proc
    /\ last.prev.pid # StablePid(last.proc, alive, HasPs)
    /\ store[last.agent] = Absent

----------------------------------------------------------------------------
(* C25 *)

\* C25: when a process has registered a named agent and the same process
\* tree (the record's owner is the stable pid its write chooses) next
\* registers that agent again without --force while the record is unexpired,
\* the registration is not refused as a session conflict.
C25_SameTreeReRegister ==
    [][ ( /\ CmdStep
          /\ last.op = "register" /\ last.out = "registered"
          /\ last'.op = "register" /\ last'.named /\ ~last'.force
          /\ last'.agent = last.agent
          /\ last'.proc = last.proc
          /\ Unexpired(store[last'.agent], now)
          /\ store[last'.agent].pid = StablePid(last'.proc, alive, HasPs) )
        => last'.out # "session_conflict"
      ]_vars

\* C26: a session heartbeat of an agent that has no unexpired record (no
\* file, or a file whose expires_at lies before now) prints no_session,
\* exits 1 and leaves no file of that agent, other agents' files untouched.
C26_HeartbeatNeverCreates ==
    [][ ( /\ CmdStep /\ last'.op = "heartbeat"
          /\ ~Unexpired(store[last'.agent], now) )
        => /\ last'.out = "no_session"
           /\ last'.exit = 1
           /\ store'[last'.agent] = Absent
           /\ \A a \in SessionNames \ {last'.agent} : store'[a] = store[a]
      ]_vars

\* a heartbeat has found an expired record, and one has found no file
C26_Witness ==
    /\ last.op = "heartbeat" /\ last.out = "no_session" /\ last.exit = 1
    /\ last.prev.kind = "object" /\ last.prev.expires_at.t < now
    /\ last.prev.pid \in alive
    /\ store[last.agent] = Absent

----------------------------------------------------------------------------
(* C29 *)

\* C29: whenever a command has resolved its identity with the tag "session",
\* the resolved name has a well-formed session record that has not expired.
C29_SessionIdentityValid ==
    ( last.op \in IdentityOps /\ last.src = "session" )
        => Unexpired(store[last.name], now)

----------------------------------------------------------------------------
(* C23 *)

\* the response carries a top-level error
TopLevelError == input.error.k # "absent"

\* the response's result is a tool result flagged isError
ToolError ==
    /\ ~TopLevelError
    /\ input.result.k = "dict" /\ input.result.isError

\* the message of a tool error: the structured message (or error) member
\* when there is one, else the stripped first content text
ToolErrorMessage ==
    LET sc == input.result.structuredContent
        c  == input.result.content
    IN  IF sc.k = "dict" /\ sc.message # "" THEN sc.message
        ELSE IF sc.k = "dict" /\ sc.error # "" THEN sc.error
        ELSE IF c.k = "list" /\ Strip(c.text) # "" THEN Strip(c.text)
        ELSE "Tool '" \o ToolName \o "' failed"

HasStructured ==
    /\ ~TopLevelError /\ ~ToolError
    /\ input.result.k = "dict" /\ input.result.structuredContent.k # "absent"

HasFirstText ==
    /\ ~TopLevelError /\ ~ToolError /\ ~HasStructured
    /\ input.result.k = "dict" /\ input.result.content.k = "list"

\* what the first three ranks of the precedence give
Precedence(o) ==
    /\ TopLevelError
         => /\ o.kind = "raise" /\ o.exc = "AgentMailError"
            /\ o.message = IF input.error.message # "" THEN input.error.message
                           ELSE "Unknown error"
            /\ o.code = input.error.code
            /\ o.data = input.error.data
    /\ ToolError
         => /\ o.kind = "raise" /\ o.exc = "AgentMailError"
            /\ o.message = ToolErrorMessage
            /\ o.data = input.result
    /\ HasStructured
         => /\ o.kind = "return"
            /\ LET sc == input.result.structuredContent IN
               IF sc.k = "dict" /\ sc.result # "none"
               THEN o.t = "unwrapped" /\ o.value = sc.result
               ELSE o.t = "structured" /\ o.value = sc
    /\ ( TopLevelError \/ ToolError ) <=> o.kind = "raise"

\* C23 as stated: a first content text is returned parsed as JSON, or as
\* the raw text when it is not JSON.
C23_Claimed ==
    last.op = "call_tool"
        => /\ Precedence(last.ret)
           /\ HasFirstText
                => /\ last.ret.kind = "return"
                   /\ LET text == input.result.content.text IN
                      IF JsonLoads(text).res = "ok"
                      THEN last.ret.t = "json" /\ last.ret.value = JsonLoads(text).value
                      ELSE last.ret.t = "text" /\ last.ret.value = text

\* C23: call_tool decides by precedence: a top-level error raises
\* AgentMailError with the error's message (Unknown error when missing),
\* code and data; else a result flagged isError raises AgentMailError with
\* the structured message or error, else the stripped first content text,
\* else a default message; else structuredContent is returned, unwrapped
\* from its result member when it has one; else a non-empty first content
\* text is returned parsed as JSON or, when it is not JSON, as it is, and an
\* empty first text gives an empty dict; else the result member itself is
\* returned; a value is returned exactly when the response is neither kind
\* of error.
C23_CallToolPrecedence ==
    last.op = "call_tool"
        => /\ Precedence(last.ret)
           /\ HasFirstText
                => /\ last.ret.kind = "return"
                   /\ LET text == input.result.content.text IN
                      IF text = ""
                      THEN last.ret.t = "dict" /\ last.ret.value = "{}"
                      ELSE IF JsonLoads(text).res = "ok"
                      THEN last.ret.t = "json" /\ last.ret.value = JsonLoads(text).value
                      ELSE last.ret.t = "text" /\ last.ret.value = text
           /\ ( ~TopLevelError /\ ~ToolError /\ ~HasStructured /\ ~HasFirstText )
                => /\ last.ret.kind = "return"
                   /\ IF input.result.k = "absent"
                      THEN last.ret.t = "dict" /\ last.ret.value = "{}"
                      ELSE last.ret.t = "result" /\ last.ret.value = input.result

\* a response flagged isError that also carries structuredContent with a
\* result member has been turned into an AgentMailError
C23_Witness ==
    /\ last.op = "call_tool"
    /\ ToolError
    /\ input.result.structuredContent.k = "dict"
    /\ input.result.structuredContent.result # "none"
    /\ input.result.structuredContent.message = ""
    /\ input.result.content.k = "list" /\ input.result.content.text = " boom "
    /\ last.ret.kind = "raise" /\ last.ret.message = input.result.structuredContent.error

----------------------------------------------------------------------------
(* C24 *)

\* the project list was obtained and none of its entries has the project
\* key as human_key or as slug
ProjectUnlisted ==
    /\ "list_projects" \notin input.fails
    /\ \A i \in 1..Len(input.projects) :
          /\ input.projects[i].human_key # ProjectKey
          /\ input.projects[i].slug # ProjectKey

\* C24: inbox-status for a project the obtained project list does not
\* contain exits 0 without calling inbox_status and shows the registration
\* hint, in JSON mode under the error project_not_found; when list_projects
\* fails, or the list contains the project, inbox_status is called.
C24_ProjectNotFound ==
    last.op = "inbox-status"
        => IF ProjectUnlisted
           THEN /\ last.exit = 0
                /\ ~last.called
                /\ last.msg = Hint(ProjectKey)
                /\ last.json => last.out = "project_not_found"
           ELSE /\ last.called
                /\ last.exit = IF "inbox_status" \in input.fails THEN 1 ELSE 0

\* inbox-status --json has reported project_not_found for a project that
\* a list of other projects does not contain, although inbox_status would
\* have failed
C24_Witness ==
    /\ last.op = "inbox-status" /\ last.json
    /\ ProjectUnlisted /\ Len(input.projects) = MaxProjects
    /\ "inbox_status" \in input.fails
    /\ last.out = "project_not_found" /\ last.exit = 0 /\ ~last.called

----------------------------------------------------------------------------
(* C27 *)

\* following the queries' answers from pid c reaches, within n further
\* pids, a pid of 1 or less, the target, or a pid whose query fails
RECURSIVE EndsWithin(_, _)
EndsWithin(c, n) ==
    \/ c <= 1
    \/ c = input.target
    \/ c \notin ChainPids
    \/ input.ppid[c] = Fail
    \/ n > 0 /\ EndsWithin(input.ppid[c], n - 1)

\* the chain from the walker's pid ends; a chain that has not ended after
\* as many pids as there are has entered a cycle
ChainEnds == EndsWithin(input.p, Cardinality(ChainPids))

Returned == pc[input.p].at = "returned"

\* C27: the walk returns when the target is 1 or less or the parent-id
\* chain from the walker reaches a pid of 1 or less, the target or a failing
\* query; on a chain that does none of these (it runs into a cycle) the
\* walk for a target above 1 never returns.
C27_WalkTermination ==
    /\ ( input.target <= 1 \/ ChainEnds ) ~> Returned
    /\ []( ( input.target > 1 /\ ~ChainEnds ) => ~Returned )

\* a walk on a cyclic chain is still walking after MaxHops passes
C27_Witness ==
    /\ pc[input.p].at = "walk" /\ pc[input.p].hops = MaxHops
    /\ input.target > 1 /\ ~ChainEnds

----------------------------------------------------------------------------
(* C28 *)

\* C28: when both processes have run clear on the record that was present,
\* exactly one of them has returned true, the other false, and neither has
\* raised.
C28_ClearRaceSafe ==
    ( \A p \in Procs : pc[p].at = "done" )
        => /\ \A p \in Procs : pc[p].exc = "none" /\ pc[p].exit = 0
           /\ Cardinality({ p \in Procs : pc[p].ret }) = 1

----------------------------------------------------------------------------
(* C22 *)

\* a run of the hook has issued a heartbeat command less than RateWindow
\* seconds ago: it wrote the time of the command to its rate-limit file
RecentlyIssued ==
    \E h \in HookProcs : tmp[h].k = "stamp" /\ now - tmp[h].t < RateWindow

\* C22: a run of the hook that comes less than RateWindow seconds after a
\* run that issued a heartbeat command issues none and returns 0.
C22_RateLimited ==
    [][ ( CmdStep /\ last'.op = "hook" /\ RecentlyIssued )
        => /\ last'.out = "rate_limited"
           /\ last'.exit = 0
           /\ store' = store
      ]_vars

----------------------------------------------------------------------------
(* C30 *)

\* what _detect_agent_from_session gives the agent-mail process that the
\* hook process h starts
CliDetects(h) == DetectAgentFromSession(store, HookChild(h), alive, HasPs)

\* a run of the hook that got as far as looking for its session
HookSelects == CmdStep /\ last'.op = "hook" /\ last'.out \notin {"rate_limited", "no_cli"}

\* C30 as claimed: the hook and the CLI select the same agent, or both
\* none, whatever the session directory holds.
C30_Claimed ==
    [][ HookSelects
        => LET cli == CliDetects(last'.proc) IN
           /\ cli.res = "raise" <=> last'.out = "AttributeError"
           /\ cli.res # "raise" => last'.name = cli.name
      ]_vars

\* C30: on a session directory with no file or with two or more files the
\* hook and the CLI select the same agent, or both none, or both fail on a
\* file that is not a JSON object; on a directory with exactly one file the
\* CLI resolves that file's name whatever the file holds, and the hook
\* selects it only when it is a JSON object whose pid is the hook process
\* or an ancestor of it.
C30_HookAgreesBeyondSingleFile ==
    [][ HookSelects
        => LET cli   == CliDetects(last'.proc)
               files == SessionFiles(store)
           IN  IF Len(files) = 1
               THEN /\ cli.res = "ok" /\ cli.name = files[1]
                    /\ LET f == store[files[1]] IN
                       CASE f.kind = "nonobject" -> last'.out = "AttributeError"
                         [] f.kind = "notjson"   -> last'.name = NoName
                         [] OTHER ->
                              last'.name = IF f.pid \in Ancestors(last'.proc, alive)
                                           THEN files[1] ELSE NoName
               ELSE /\ cli.res = "raise" <=> last'.out = "AttributeError"
                    /\ cli.res # "raise" => last'.name = cli.name
      ]_vars

\* with two session files, the first owned by a process outside the hook's
\* ancestry, the hook has sent a heartbeat for the second, which the CLI
\* resolves as well
C30_Witness ==
    /\ last.op = "hook" /\ last.out = "heartbeat" /\ last.name = "Olive"
    /\ store["Nova"].kind = "object" /\ store["Nova"].pid = 5
    /\ last.prev.pid = 2
    /\ CliDetects(last.proc).name = "Olive"

====
